---------------------------- MODULE Spec2Model ----------------------------
(***************************************************************************)
(* A model of the cheddar_serial command bridge (SerialBridge and its two  *)
(* transports) of the Cheddar robot: concurrent callers issue helper       *)
(* commands, raw send_command calls and close on one bridge.               *)
(*                                                                         *)
(* Text is modelled as a sequence of one-character strings, so that        *)
(* trimming, upper-casing and prefix tests are computed as Python does.    *)
(***************************************************************************)
EXTENDS Integers, Sequences, FiniteSets, TLC

(***************************************************************************)
(* Bounds of the model.                                                    *)
(***************************************************************************)
\* calls (helpers, send_command, close) made in one behaviour by the two
\* concurrent callers together
MaxCalls == 3
\* calls made in one behaviour of the fair workload
MaxFairCalls == 2
\* calls made in one behaviour by the single caller that uses every helper
MaxHelperCalls == 2

\* two concurrent callers (threads) share the one bridge
Callers == {1, 2}

(***************************************************************************)
(* Text: str.strip, str.rstrip("\r\n"), str.upper, str.lower,              *)
(* str.startswith, str.isdigit, int(), str(int).                           *)
(***************************************************************************)
LowerLetters == <<"a","b","c","d","e","f","g","h","i","j","k","l","m",
                  "n","o","p","q","r","s","t","u","v","w","x","y","z">>
UpperLetters == <<"A","B","C","D","E","F","G","H","I","J","K","L","M",
                  "N","O","P","Q","R","S","T","U","V","W","X","Y","Z">>
Digits == <<"0","1","2","3","4","5","6","7","8","9">>
Whitespace == {" ", "\t", "\n", "\r"}

UpperChar(c) ==
    IF \E i \in 1..26 : LowerLetters[i] = c
    THEN UpperLetters[CHOOSE i \in 1..26 : LowerLetters[i] = c]
    ELSE c

LowerChar(c) ==
    IF \E i \in 1..26 : UpperLetters[i] = c
    THEN LowerLetters[CHOOSE i \in 1..26 : UpperLetters[i] = c]
    ELSE c

Upper(s) == [i \in 1..Len(s) |-> UpperChar(s[i])]
Lower(s) == [i \in 1..Len(s) |-> LowerChar(s[i])]

RECURSIVE LStripSet(_, _)
LStripSet(s, cs) ==
    IF s # <<>> /\ Head(s) \in cs THEN LStripSet(Tail(s), cs) ELSE s

RECURSIVE RStripSet(_, _)
RStripSet(s, cs) ==
    IF s # <<>> /\ s[Len(s)] \in cs
    THEN RStripSet(SubSeq(s, 1, Len(s) - 1), cs)
    ELSE s

\* str.strip()
Strip(s) == RStripSet(LStripSet(s, Whitespace), Whitespace)
\* str.rstrip("\r\n")
RStripNewline(s) == RStripSet(s, {"\r", "\n"})

StartsWith(s, p) == Len(s) >= Len(p) /\ SubSeq(s, 1, Len(p)) = p

IsDigitChar(c) == \E i \in 1..10 : Digits[i] = c
DigitValue(c) == (CHOOSE i \in 1..10 : Digits[i] = c) - 1
\* str.isdigit(): non-empty and every character a digit
IsDigit(s) == s # <<>> /\ \A i \in 1..Len(s) : IsDigitChar(s[i])

RECURSIVE ParseInt(_)
ParseInt(s) ==
    IF s = <<>> THEN 0
    ELSE 10 * ParseInt(SubSeq(s, 1, Len(s) - 1)) + DigitValue(s[Len(s)])

RECURSIVE NatStr(_)
NatStr(n) ==
    IF n < 10 THEN <<Digits[n + 1]>>
    ELSE NatStr(n \div 10) \o <<Digits[(n % 10) + 1]>>

\* str(int)
IntStr(n) == IF n < 0 THEN <<"-">> \o NatStr(0 - n) ELSE NatStr(n)

\* f"{speed:.2f}" of a speed given in thousandths (round half to even on the
\* decimal value; the speeds drawn below are exact in binary or multiples of
\* 0.01, where this is what Python prints)
Hundredths(m) ==
    LET q == m \div 10
        r == m % 10
    IN  IF r > 5 \/ (r = 5 /\ q % 2 = 1) THEN q + 1 ELSE q

Fmt2(m) ==
    LET h == Hundredths(m)
        f == h % 100
    IN  NatStr(h \div 100) \o <<".">> \o <<Digits[(f \div 10) + 1], Digits[(f % 10) + 1]>>

SP == <<" ">>


(***************************************************************************)
(* The words of the wire protocol.                                         *)
(***************************************************************************)
W_OK == <<"O","K">>
W_ERR == <<"E","R","R">>
W_ALL == <<"A","L","L">>
W_ALL_BRACKETS == <<"[","A","L","L","]">>
W_FORWARD == <<"F","O","R","W","A","R","D">>
W_BACKWARD == <<"B","A","C","K","W","A","R","D">>
W_MOTOR == <<"M","O","T","O","R">>
W_START == <<"S","T","A","R","T">>
W_STOP == <<"S","T","O","P">>
W_S == <<"S">>
W_SWEEP == <<"S","W","E","E","P">>
W_LOG == <<"L","O","G">>
W_ON == <<"O","N">>
W_OFF == <<"O","F","F">>
W_PING == <<"P","I","N","G">>
W_PONG == <<"P","O","N","G">>

(***************************************************************************)
(* Outcomes of a call: a returned value, a returned None, or a raised      *)
(* exception with its text.                                                *)
(***************************************************************************)
Return(v) == [kind |-> "return", val |-> v]
ReturnNone == [kind |-> "return_none", val |-> <<>>]
Raise(k, text) == [kind |-> k, val |-> text]
Pending == [kind |-> "pending", val |-> <<>>]
Returned(r) == r.kind \in {"return", "return_none"}
\* the exceptions raised: ValueError, TimeoutError, CommandError, RuntimeError
\* (no port configured) and SerialException (pyserial)

\* An encoder's result: the command line, or a validation error
Line(l) == [ok |-> TRUE, line |-> l]
Invalid == [ok |-> FALSE, line |-> <<>>]

(***************************************************************************)
(* SerialConfig.effective_port                                             *)
(***************************************************************************)
PortSentinels == {<<>>, <<"a","u","t","o">>, <<"d","e","t","e","c","t">>}

\* mutant: the sentinels are compared without trimming and lower-casing
effective_port_exact(port) ==
    IF port \in PortSentinels
    THEN [some |-> FALSE, port |-> <<>>]
    ELSE [some |-> TRUE, port |-> port]

\* None is modelled as the record with some = FALSE
effective_port(port) ==
    LET p == Strip(port)
    IN  IF Lower(p) \in PortSentinels
        THEN [some |-> FALSE, port |-> <<>>]
        ELSE [some |-> TRUE, port |-> p]

(***************************************************************************)
(* SerialBridge: validators and encoders (the part of each helper that     *)
(* runs before send_command).                                              *)
(***************************************************************************)
\* mutant: the upper limit of the channel is off by one
validate_channel_to_16(channel) == ~(channel < 0 \/ channel > 16)

validate_channel(channel) == ~(channel < 0 \/ channel > 15)

\* mutant: any decimal index is taken for a motor
normalize_target_any_index(target) ==
    LET t == Upper(Strip(target))
    IN  IF t \in {W_ALL, W_ALL_BRACKETS} THEN Line(W_ALL)
        ELSE IF ~IsDigit(t) THEN Invalid
        ELSE Line(IntStr(ParseInt(t)))

normalize_target(target) ==
    LET t == Upper(Strip(target))
    IN  IF t \in {W_ALL, W_ALL_BRACKETS} THEN Line(W_ALL)
        ELSE IF ~IsDigit(t) THEN Invalid
        ELSE IF ~(0 <= ParseInt(t) /\ ParseInt(t) <= 5) THEN Invalid
        ELSE Line(IntStr(ParseInt(t)))

\* mutant: the direction is checked in upper case but passed on as given
normalize_direction_keep_case(direction) ==
    LET upper == Upper(Strip(direction))
    IN  IF upper \notin {W_FORWARD, W_BACKWARD} THEN Invalid
        ELSE Line(Strip(direction))

normalize_direction(direction) ==
    LET upper == Upper(Strip(direction))
    IN  IF upper \notin {W_FORWARD, W_BACKWARD} THEN Invalid ELSE Line(upper)

\* speeds are in thousandths; NoSpeed is Python's None
NoSpeed == [some |-> FALSE, v |-> 0]
Speed(m) == [some |-> TRUE, v |-> m]

\* mutant: the pulse width is not checked
set_servo_any_pulse(channel, pulse_us) ==
    IF ~validate_channel(channel) THEN Invalid
    ELSE Line(W_S \o SP \o IntStr(channel) \o SP \o IntStr(pulse_us))

set_servo(channel, pulse_us) ==
    IF ~validate_channel(channel) THEN Invalid
    ELSE IF pulse_us <= 0 THEN Invalid
    ELSE Line(W_S \o SP \o IntStr(channel) \o SP \o IntStr(pulse_us))

\* mutant: the range is left out of the line
set_sweep_without_range(enabled, sweep_range) ==
    Line(W_SWEEP \o SP \o (IF enabled THEN W_ON ELSE W_OFF))

\* sweep_range = <<>> stands for both None and "" (both are falsy)
set_sweep(enabled, sweep_range) ==
    LET command == W_SWEEP \o SP \o (IF enabled THEN W_ON ELSE W_OFF)
    IN  IF sweep_range # <<>> THEN Line(command \o SP \o sweep_range)
        ELSE Line(command)

set_log(enabled) == Line(W_LOG \o SP \o (IF enabled THEN W_ON ELSE W_OFF))

motor_run(target, direction, speed) ==
    LET tgt == normalize_target(target)
        dir_upper == normalize_direction(direction)
    IN  IF ~tgt.ok THEN Invalid
        ELSE IF ~dir_upper.ok THEN Invalid
        ELSE LET command == W_MOTOR \o SP \o tgt.line \o SP \o dir_upper.line
             IN  IF speed.some
                 THEN IF ~(0 <= speed.v /\ speed.v <= 1000) THEN Invalid
                      ELSE Line(command \o SP \o Fmt2(speed.v))
                 ELSE Line(command)

motor_start(target) ==
    LET tgt == normalize_target(target)
    IN  IF ~tgt.ok THEN Invalid
        ELSE Line(W_MOTOR \o SP \o tgt.line \o SP \o W_START)

motor_stop(target) ==
    LET tgt == normalize_target(target)
    IN  IF ~tgt.ok THEN Invalid
        ELSE Line(W_MOTOR \o SP \o tgt.line \o SP \o W_STOP)

ping == Line(W_PING)

(***************************************************************************)
(* SerialBridge: classification of the response.                           *)
(***************************************************************************)
\* mutant: the ERR prefix is compared case-sensitively
IsErrResponseExact(text) == StartsWith(text, W_ERR)

\* send_command, lines 142-151: response is [some, text], None being some = FALSE
IsErrResponse(text) == StartsWith(Upper(text), W_ERR)

\* mutant: a missing response is taken for an empty one
ClassifyNoneAsEmpty(response) ==
    IF ~response.some THEN Return(<<>>)
    ELSE LET r == Strip(response.text)
         IN  IF StartsWith(Upper(r), W_ERR) THEN Raise("CommandError", r) ELSE Return(r)

ClassifyResponse(response) ==
    IF ~response.some THEN Raise("TimeoutError", <<>>)
    ELSE LET r == Strip(response.text)
         IN  IF IsErrResponse(r) THEN Raise("CommandError", r) ELSE Return(r)

IsOk(text) == Upper(text) = W_OK

\* mutant: OK is compared case-sensitively
expect_ok_exact(res) ==
    IF res.kind = "return_none" THEN Return(<<>>)
    ELSE IF res.val # W_OK THEN Raise("CommandError", res.val)
    ELSE Return(res.val)

\* _expect_ok applied to what send_command returned
expect_ok(res) ==
    IF res.kind = "return_none" THEN Return(<<>>)
    ELSE IF ~IsOk(res.val) THEN Raise("CommandError", res.val)
    ELSE Return(res.val)

\* mutant: ping requires OK as the other helpers do
ping_expect_ok(res) == expect_ok(res)

\* ping: send_command("PING") or ""
ping_result(res) ==
    IF res.kind = "return_none" \/ res.val = <<>> THEN Return(<<>>) ELSE Return(res.val)

\* What a helper hands to its caller, given how its send_command ended: an
\* exception leaves the helper unchanged; a direct call of send_command or of
\* close hands back its own result
HelperResult(op, res) ==
    IF ~Returned(res) THEN res
    ELSE IF op \in {"send_command", "close"} THEN res
    ELSE IF op = "ping" THEN ping_result(res)
    ELSE expect_ok(res)

(***************************************************************************)
(* The inputs drawn: requests of the callers, configurations, responses.   *)
(***************************************************************************)
T_all == <<"A","L","L">>
T_all_brackets == <<" ","[","a","l","l","]"," ">>
T_three == <<" ","3"," ">>
T_five == <<"0","5">>
T_six == <<"6">>
T_foo == <<"f","o","o">>
D_forward == <<"f","o","r","w","a","r","d">>
D_backward == <<"B","a","c","k","w","a","r","d"," ">>
D_up == <<"u","p">>
SweepRange == <<"6","0","0","-","2","4","0","0">>

\* the arguments of a helper call; a helper reads only its own
NoArgs == [channel |-> 0, pulse_us |-> 0, target |-> <<>>, direction |-> <<>>,
           speed |-> NoSpeed, enabled |-> FALSE, sweep_range |-> <<>>,
           command |-> <<>>]
ServoArgs(channel, pulse_us) ==
    [NoArgs EXCEPT !.channel = channel, !.pulse_us = pulse_us]
RunArgs(target, direction, speed) ==
    [NoArgs EXCEPT !.target = target, !.direction = direction, !.speed = speed]
TargetArgs(target) == [NoArgs EXCEPT !.target = target]
SweepArgs(enabled, sweep_range) ==
    [NoArgs EXCEPT !.enabled = enabled, !.sweep_range = sweep_range]
LogArgs(enabled) == [NoArgs EXCEPT !.enabled = enabled]
CommandArgs(command) == [NoArgs EXCEPT !.command = command]

\* what the helper op does with arguments a before it calls send_command
Encode(op, a) ==
    CASE op = "set_servo" -> set_servo(a.channel, a.pulse_us)
      [] op = "motor_run" -> motor_run(a.target, a.direction, a.speed)
      [] op = "motor_start" -> motor_start(a.target)
      [] op = "motor_stop" -> motor_stop(a.target)
      [] op = "set_sweep" -> set_sweep(a.enabled, a.sweep_range)
      [] op = "set_log" -> set_log(a.enabled)
      [] op = "ping" -> ping
      [] op = "send_command" -> Line(a.command)

\* a request: the call, its arguments and what the helper makes of them
\* before it calls send_command
Req(op, args, expect) ==
    [op |-> op, args |-> args, expect |-> expect, enc |-> Encode(op, args)]

ServoRequests ==
    {Req("set_servo", ServoArgs(a[1], a[2]), TRUE) :
        a \in {<<0, 1200>>, <<15, 1500>>, <<16, 1500>>, <<0 - 1, 1500>>, <<2, 0>>}}

MotorRunRequests ==
    {Req("motor_run", RunArgs(a[1], a[2], a[3]), TRUE) :
        a \in {<<T_all, D_forward, Speed(500)>>, <<T_three, D_backward, NoSpeed>>,
               <<T_foo, D_forward, Speed(200)>>, <<T_six, D_forward, NoSpeed>>,
               <<T_all, D_up, NoSpeed>>, <<T_all, D_forward, Speed(1010)>>,
               <<T_three, D_backward, Speed(0 - 10)>>,
               <<T_five, D_forward, Speed(1000)>>, <<T_three, D_backward, Speed(0)>>}}

MotorStartStopRequests ==
    {Req("motor_start", TargetArgs(t), TRUE) : t \in {T_all_brackets, T_five, T_six}}
    \cup {Req("motor_stop", TargetArgs(t), TRUE) : t \in {T_all, T_foo, <<>>}}

OtherRequests ==
    {Req("set_sweep", SweepArgs(TRUE, <<>>), TRUE),
     Req("set_sweep", SweepArgs(FALSE, SweepRange), TRUE),
     Req("set_log", LogArgs(FALSE), TRUE),
     Req("set_log", LogArgs(TRUE), TRUE),
     Req("ping", NoArgs, TRUE),
     Req("send_command", CommandArgs(W_PING), FALSE),
     Req("send_command", CommandArgs(W_LOG \o SP \o W_ON \o <<"\n">>), TRUE)}

Requests ==
    ServoRequests \cup MotorRunRequests \cup MotorStartStopRequests \cup OtherRequests

\* the requests drawn when two callers run concurrently: a helper with valid
\* and with invalid arguments, and a bare send_command that expects no
\* response
ConcurrentRequests ==
    {Req("set_servo", ServoArgs(0, 1200), TRUE),
     Req("set_servo", ServoArgs(16, 1500), TRUE),
     Req("send_command", CommandArgs(W_PING), FALSE)}

R_OK == W_OK
R_ok == <<"o","k"," ">>
R_ERR == <<"E","R","R"," ","S","e","r","v","o"," ","c","h","a","n","n","e","l">>
R_err == <<" ","e","r","r">>
R_PONG == W_PONG
R_empty == <<>>

\* what the board may answer with (the text of one line, before its newline)
Responses == {R_OK, R_ok, R_ERR, R_PONG, R_empty}
\* the answers drawn when two callers run concurrently
ConcurrentResponses == {R_OK, R_ERR}
\* the canned responses of an injected DummyTransport (a bridge in dry-run
\* mode makes its own with the default, OK)
InjectedCanned == {R_err, R_PONG}

P_auto == <<"A","u","t","o"," ">>
P_empty == <<>>
P_detect == <<" ","d","e","t","e","c","t">>
P_tty == <<"/","d","e","v","/","t","t","y","S","0">>
Ports == {P_empty, P_auto, P_detect, P_tty}

(***************************************************************************)
(* MotionDriverBridge: the ControlCommand it is given and the lines it     *)
(* makes of it.  Speeds are in thousandths.                                *)
(***************************************************************************)
\* send_command invocations made in one behaviour
MaxRouterCommands == 2
\* calls of connect, disconnect, send_raw and read_line made in one behaviour
MaxRouterCalls == 2

\* an optional field: None, or a number
Absent == [some |-> FALSE, v |-> 0]
Given(v) == [some |-> TRUE, v |-> v]

Abs(x) == IF x < 0 THEN 0 - x ELSE x

\* str(float) of a non-negative speed of at most three decimals: the
\* shortest decimal, with at least one digit after the point
PyFloatStr(m) ==
    LET f == m % 1000
        d1 == Digits[(f \div 100) + 1]
        d2 == Digits[((f \div 10) % 10) + 1]
        d3 == Digits[(f % 10) + 1]
    IN  NatStr(m \div 1000) \o <<".">> \o
            (IF f % 100 = 0 THEN <<d1>>
             ELSE IF f % 10 = 0 THEN <<d1, d2>>
             ELSE <<d1, d2, d3>>)

NL == <<"\n">>

\* "MOTOR ALL STOP\n"
StopAllLine == W_MOTOR \o SP \o W_ALL \o SP \o W_STOP \o NL

\* mutant: the speed is written with its sign
RouterMotorLineSigned(motor_id, speed) ==
    IF speed = 0
    THEN W_MOTOR \o SP \o IntStr(motor_id) \o SP \o W_STOP \o NL
    ELSE W_MOTOR \o SP \o IntStr(motor_id) \o SP
             \o (IF speed > 0 THEN W_FORWARD ELSE W_BACKWARD)
             \o SP \o (IF speed < 0 THEN <<"-">> ELSE <<>>)
             \o PyFloatStr(Abs(speed)) \o NL

\* the line for one motor: STOP for a zero speed, else the direction of the
\* sign and the magnitude
RouterMotorLine(motor_id, speed) ==
    IF speed = 0
    THEN W_MOTOR \o SP \o IntStr(motor_id) \o SP \o W_STOP \o NL
    ELSE W_MOTOR \o SP \o IntStr(motor_id) \o SP
             \o (IF speed > 0 THEN W_FORWARD ELSE W_BACKWARD)
             \o SP \o PyFloatStr(Abs(speed)) \o NL

\* f"S {servo_id} {pulse_us}\n"
RouterServoLine(servo_id, pulse_us) ==
    W_S \o SP \o IntStr(servo_id) \o SP \o IntStr(pulse_us) \o NL

\* for motor_id in [0, 1, 2] / [3, 4, 5]
LeftMotors == <<0, 1, 2>>
RightMotors == <<3, 4, 5>>

\* cmd.motor_left or 0.0
OrZero(field) == IF field.some THEN field.v ELSE 0

\* A command object.  has_arrays tells whether it has the attributes motors
\* and servos at all: the ControlCommand of models.py has not (reading them
\* raises AttributeError), an object that carries the arrays has.  An empty
\* array stands for None too (both are falsy).
Command(type, has_arrays, motors, servos, left, right, pan, tilt) ==
    [type |-> type, has_arrays |-> has_arrays, motors |-> motors,
     servos |-> servos, motor_left |-> left, motor_right |-> right,
     servo_pan |-> pan, servo_tilt |-> tilt]

NoCommand == Command("none", FALSE, <<>>, <<>>, Absent, Absent, Absent, Absent)

RouterCommands ==
    {\* stop and estop that carry every other field as well
     Command("stop", TRUE, <<500, 0>>, <<1500>>, Given(500), Given(0 - 500),
             Given(90), Given(45)),
     Command("estop", TRUE, <<>>, <<>>, Absent, Absent, Absent, Absent),
     \* ControlCommand(type="stop", motor_left=0.5, ...) of models.py
     Command("stop", FALSE, <<>>, <<>>, Given(500), Absent, Absent, Given(45)),
     \* arrays, legacy motors and pan/tilt together
     Command("motor", TRUE, <<500, 0, 0 - 250>>, <<1500, 1200>>, Given(750),
             Absent, Given(90), Given(45)),
     \* the legacy fields alone, on an object with empty arrays
     Command("motor", TRUE, <<>>, <<>>, Absent, Given(0 - 1000), Absent, Given(0)),
     \* the servo array alone
     Command("servo", TRUE, <<>>, <<1500, 1200>>, Absent, Absent, Absent, Absent),
     \* a motor array of seven entries
     Command("motor", TRUE, <<1000, 0, 0 - 5, 125, 0, 0 - 1000, 500>>, <<>>,
             Absent, Absent, Absent, Absent),
     \* a servo array of seventeen entries
     Command("servo", TRUE, <<>>, [k \in 1..17 |-> 1500], Absent, Absent, Absent,
             Absent),
     \* ControlCommand(type="motor", motor_left=0.5, motor_right=-0.5) of
     \* models.py
     Command("motor", FALSE, <<>>, <<>>, Given(500), Given(0 - 500), Absent, Absent),
     \* ControlCommand(type="ping") of models.py
     Command("ping", FALSE, <<>>, <<>>, Absent, Absent, Absent, Absent)}

\* MotionDriverBridge: connected and writer are its fields; pc, i and cmd are
\* the position of send_command; wire is history: the lines handed to
\* writer.write during the current send_command, each with the part of the
\* command it came from and whether the write succeeded; attempts counts the
\* calls of send_raw, entered tells whether send_command found the bridge
\* connected, error whether its except clause caught an exception; n counts
\* the invocations.  reader is the third field of the object; io is the
\* latest call of connect, disconnect, send_raw or read_line, m counts these
\* calls, and lost tells that a write has failed since the link was last
\* opened
NoIO == [op |-> "none", wrote |-> FALSE, fate |-> "none", got |-> [some |-> FALSE, text |-> <<>>],
         raised |-> FALSE]
RouterBridge(connected) ==
    [connected |-> connected, writer |-> connected, reader |-> connected,
     pc |-> "idle", i |-> 0,
     cmd |-> NoCommand, wire |-> <<>>, attempts |-> 0, entered |-> FALSE,
     error |-> FALSE, n |-> 0, m |-> 0, lost |-> FALSE, io |-> NoIO]

(***************************************************************************)
(* controller_mapping: the stick-to-track functions.  A float is modelled  *)
(* by the exact rational it stands for, [n, d] with d > 0, so rounding is  *)
(* left out and a zero has no sign; stick values and deadzones are drawn   *)
(* from the multiples of 1/AxisSteps.  A result is applied to again at     *)
(* most MaxReapply times, and a controller takes at most MaxUpdates events.*)
(***************************************************************************)
AxisSteps == 100
MaxReapply == 1
MaxUpdates == 2

RECURSIVE GCD(_, _)
GCD(a, b) == IF b = 0 THEN a ELSE GCD(b, a % b)
\* the rational n / d in lowest terms, for d > 0
Rat(n, d) == LET g == GCD(Abs(n), d) IN [n |-> n \div g, d |-> d \div g]
Zero == Rat(0, 1)
One == Rat(1, 1)
MinusOne == Rat(0 - 1, 1)
RLt(a, b) == a.n * b.d < b.n * a.d
REq(a, b) == a.n * b.d = b.n * a.d
RLe(a, b) == RLt(a, b) \/ REq(a, b)
RAbs(a) == Rat(Abs(a.n), a.d)
RAdd(a, b) == Rat(a.n * b.d + b.n * a.d, a.d * b.d)
RSub(a, b) == Rat(a.n * b.d - b.n * a.d, a.d * b.d)
RMul(a, b) == Rat(a.n * b.n, a.d * b.d)
\* a / b for b > 0
RDiv(a, b) == Rat(a.n * b.d, a.d * b.n)
\* Python's max(a, b) and min(a, b): the first argument unless the second
\* is strictly beyond it
RMax(a, b) == IF RLt(a, b) THEN b ELSE a
RMin(a, b) == IF RLt(b, a) THEN b ELSE a
RSign(a) == IF a.n > 0 THEN 1 ELSE IF a.n < 0 THEN 0 - 1 ELSE 0

\* mutant: no band and no clamp, the bare linear rescale
apply_deadzone_unclamped(value, deadzone) == RMul(RDiv(RSub(RAbs(value), deadzone), RSub(One, deadzone)), IF RLt(Zero, value) THEN One ELSE MinusOne)

\* mutant: the sign of the input is lost
apply_deadzone_unsigned(value, deadzone) == IF RLt(RAbs(value), deadzone) THEN Zero ELSE RMax(Zero, RMin(One, RDiv(RSub(RAbs(value), deadzone), RSub(One, deadzone))))

\* mutant: outside the band the value passes through without the rescale
apply_deadzone_passthrough(value, deadzone) == IF RLt(RAbs(value), deadzone) THEN Zero ELSE value

apply_deadzone(value, deadzone) ==
    IF RLt(RAbs(value), deadzone) THEN Zero
    ELSE LET sign == IF RLt(Zero, value) THEN One ELSE MinusOne
             adjusted == RDiv(RSub(RAbs(value), deadzone), RSub(One, deadzone))
         IN  RMul(RMax(Zero, RMin(One, adjusted)), sign)

\* mutant: the pair is scaled down together so that the larger side is 1
differential_mix_normalised(throttle, turn) == LET left == RAdd(throttle, turn) right == RSub(throttle, turn) m == RMax(One, RMax(RAbs(left), RAbs(right))) IN <<RDiv(left, m), RDiv(right, m)>>

differential_mix(throttle, turn) ==
    LET left == RAdd(throttle, turn)
        right == RSub(throttle, turn)
    IN  <<RMax(MinusOne, RMin(One, left)), RMax(MinusOne, RMin(One, right))>>

DriveCommand(left, right) == [left |-> left, right |-> right]

\* mutant: only the throttle is conditioned, the turn is mixed in raw
compute_drive_raw_turn(throttle, turn, deadzone) == LET lr == differential_mix(apply_deadzone(throttle, deadzone), turn) IN DriveCommand(lr[1], lr[2])

compute_drive(throttle, turn, deadzone) ==
    LET t == apply_deadzone(throttle, deadzone)
        u == apply_deadzone(turn, deadzone)
        lr == differential_mix(t, u)
    IN  DriveCommand(lr[1], lr[2])

\* part of DriveCommand.as_direction_speed: <<direction, speed>> of one side
speed_part(v) ==
    IF v.n = 0 THEN <<W_FORWARD, Zero>>
    ELSE <<IF RLt(Zero, v) THEN W_FORWARD ELSE W_BACKWARD, RAbs(v)>>
as_direction_speed(drive) == <<speed_part(drive.left), speed_part(drive.right)>>

(***************************************************************************)
(* xbox_control.XboxController: the two stick axes it stores and update.   *)
(* An event is [type, code, value] as evdev delivers it.                   *)
(***************************************************************************)
\* mutant: the normalised value is stored as computed
Clamp1Off(x) == x

Clamp1(x) == RMax(MinusOne, RMin(One, x))
\* XboxController.AXIS_NORMALIZERS, then the clamp of update
NormalizeY(v) == Clamp1(Rat(0 - v, 32767))
NormalizeRX(v) == Clamp1(Rat(v, 32767))

InputEvent(type, code, value) == [type |-> type, code |-> code, value |-> value]
\* update: the axes after the event and the action returned ("none" is None)
update(y, rx, event) ==
    IF event.type = "EV_ABS" /\ event.code \in {"ABS_Y", "ABS_RX"}
    THEN [y |-> IF event.code = "ABS_Y" THEN NormalizeY(event.value) ELSE y,
          rx |-> IF event.code = "ABS_RX" THEN NormalizeRX(event.value) ELSE rx,
          action |-> "none"]
    ELSE IF event.type = "EV_KEY" /\ event.code = "BTN_SOUTH" /\ event.value = 1
    THEN [y |-> y, rx |-> rx, action |-> "ALLSTOP"]
    ELSE IF event.type = "EV_KEY" /\ event.code = "BTN_EAST" /\ event.value = 1
    THEN [y |-> y, rx |-> rx, action |-> "EXIT"]
    ELSE [y |-> y, rx |-> rx, action |-> "none"]

\* the events drawn: stick positions over the signed 16-bit range, another
\* axis, presses and releases of buttons, a sync report
StickRaw == {0 - 32768, 0 - 32767, 0 - 16384, 0 - 1, 0, 1, 16384, 32767}
InputEvents ==
    {InputEvent("EV_ABS", c, v) : c \in {"ABS_Y", "ABS_RX", "ABS_X"}, v \in StickRaw}
    \cup {InputEvent("EV_KEY", c, v) : c \in {"BTN_SOUTH", "BTN_EAST", "BTN_NORTH"}, v \in {0, 1}}
    \cup {InputEvent("EV_SYN", "SYN_REPORT", 0)}
NoInputEvent == InputEvent("none", "none", 0)

\* a stick value or a deadzone of k / AxisSteps
Axis(k) == Rat(k, AxisSteps)
AxisValues == {Axis(k) : k \in (0 - AxisSteps)..AxisSteps}
Deadzones == {Axis(k) : k \in 0..(AxisSteps - 1)}

\* one call of a function of the module: its arguments, and once it has
\* returned its result; again counts the re-applications to the result
MappingCall(fn, value, deadzone, throttle, turn) ==
    [fn |-> fn, value |-> value, deadzone |-> deadzone, throttle |-> throttle,
     turn |-> turn, returned |-> FALSE, arg |-> value, out |-> Zero,
     left |-> Zero, right |-> Zero, again |-> 0, ds |-> <<>>,
     y |-> Zero, rx |-> Zero, event |-> NoInputEvent, action |-> "none",
     nupdates |-> 0]
NoMapping == MappingCall("none", Zero, Zero, Zero, Zero)
\* the arguments compute_drive is called on: every tenth grid value, and a
\* few deadzones with the default 0.08 among them
DriveAxisValues == {Axis(10 * k) : k \in (0 - (AxisSteps \div 10))..(AxisSteps \div 10)}
DriveDeadzones == {Axis(0), Axis(5), Axis(8), Axis(50)}

NoTeleop == [pc |-> "off"]

(***************************************************************************)
(* State.                                                                  *)
(***************************************************************************)
VARIABLES
    config,      \* SerialBridge._config: [dry_run, port]
    transport,   \* SerialBridge._transport: 0 is None, else an index of transports
    lock,        \* SerialBridge._lock: 0 is free, else the caller holding it
    transports,  \* every transport object created so far
    pc,          \* where each caller is in its call
    call,        \* the locals of each caller's call
    outcome,     \* what each caller's call handed back
    ncalls,      \* calls started so far
    last,        \* history: the latest operation performed on a transport
    workload,    \* "concurrent": both callers; "sequential": caller 1 alone
    router,      \* the MotionDriverBridge and its send_command in progress
    teleop,      \* the teleop program (xbox_control.main) and its history
    mapping      \* a call of a function of controller_mapping: arguments, result

vars == <<config, transport, lock, transports, pc, call, outcome, ncalls, last,
          workload, router, teleop, mapping>>
\* the state of the SerialBridge and its callers
bridge_vars == <<config, transport, lock, transports, pc, call, outcome, ncalls,
                 last, workload>>

Active == IF workload = "sequential" THEN {1} ELSE Callers
Drawn == IF workload = "sequential" THEN Requests ELSE ConcurrentRequests
Answers == IF workload = "sequential" THEN Responses ELSE ConcurrentResponses
CallLimit ==
    IF workload = "sequential" THEN MaxHelperCalls
    ELSE IF workload = "fair" THEN MaxFairCalls ELSE MaxCalls

\* writes and reads count the write_line and readline calls of the call; sc
\* is how its send_command ended
NoCall == [op |-> "none", args |-> NoArgs, command |-> <<>>, expect |-> FALSE,
           tr |-> 0, id |-> 0, writes |-> 0, reads |-> 0, sc |-> Pending]

\* DummyTransport(canned_response=canned).  closes counts the close() calls
\* made on the object
DummyTransport(canned) ==
    [kind |-> "dummy", canned |-> canned, is_open |-> TRUE, last_line |-> <<>>,
     pend |-> <<>>, rx |-> <<>>, closes |-> 0]

\* PySerialTransport(port, ...): the serial port is open after construction;
\* pend holds the calls whose line the board has not answered yet, rx the
\* lines received and not yet read
PySerialTransport ==
    [kind |-> "pyserial", canned |-> <<>>, is_open |-> TRUE, last_line |-> <<>>,
     pend |-> <<>>, rx |-> <<>>, closes |-> 0]

\* Python's Optional[str]
None == [some |-> FALSE, text |-> <<>>]
Some(text) == [some |-> TRUE, text |-> text]

\* ev: open, write, wfail, read, rfail, close; id: the call that did it; res:
\* what a read returned; re: the call whose line the board was answering
Event(ev, t, tr, res, re) ==
    [ev |-> ev, id |-> call[t].id, tr |-> tr, res |-> res, re |-> re]
NoEvent == [ev |-> "none", id |-> 0, tr |-> 0, res |-> None, re |-> 0]

\* the session of a bridge just constructed, none of its methods called yet
InitSession ==
    /\ \/ transport = 0 /\ transports = <<>>
       \/ \E c \in InjectedCanned :
            transport = 1 /\ transports = <<DummyTransport(c)>>
    /\ lock = 0
    /\ pc = [t \in Callers |-> "idle"]
    /\ call = [t \in Callers |-> NoCall]
    /\ outcome = [t \in Callers |-> Pending]
    /\ ncalls = 0
    /\ last = NoEvent
    /\ router = RouterBridge(FALSE)
    /\ teleop = NoTeleop
    /\ mapping = NoMapping

InitBridge ==
    \* the port is read only when dry_run is false (_ensure_transport)
    /\ config \in [dry_run : {FALSE}, port : Ports]
                    \cup {[dry_run |-> TRUE, port |-> P_auto]}
    /\ InitSession

\* dry-run configurations with a port that names a device and with no port
DryRunConfigs == {[dry_run |-> TRUE, port |-> p] : p \in {P_tty, P_empty}}

Init == InitBridge /\ workload = "concurrent"
InitSequential ==
    /\ InitBridge \/ (config \in DryRunConfigs /\ InitSession)
    /\ workload = "sequential"

(***************************************************************************)
(* A caller starts a call, having taken the result of its previous one.    *)
(* A helper validates and encodes first; a validation error ends the call  *)
(* there.                                                                  *)
(***************************************************************************)
StartCall(t, req) ==
    /\ pc[t] \in {"idle", "done"}
    /\ ncalls < CallLimit
    /\ ncalls' = ncalls + 1
    /\ IF req.enc.ok
       THEN /\ call' = [call EXCEPT ![t] =
                    [NoCall EXCEPT !.op = req.op, !.args = req.args,
                                   !.command = req.enc.line,
                                   !.expect = req.expect, !.id = ncalls + 1]]
            /\ pc' = [pc EXCEPT ![t] = "acquire"]
            /\ outcome' = [outcome EXCEPT ![t] = Pending]
       ELSE /\ call' = [call EXCEPT ![t] =
                    [NoCall EXCEPT !.op = req.op, !.args = req.args,
                                   !.id = ncalls + 1]]
            /\ pc' = [pc EXCEPT ![t] = "done"]
            /\ outcome' = [outcome EXCEPT ![t] = Raise("ValueError", <<>>)]
    /\ UNCHANGED <<config, transport, lock, transports, last, workload, router, teleop, mapping>>

StartClose(t) ==
    /\ pc[t] \in {"idle", "done"}
    /\ ncalls < CallLimit
    /\ ncalls' = ncalls + 1
    /\ call' = [call EXCEPT ![t] = [NoCall EXCEPT !.op = "close", !.id = ncalls + 1]]
    /\ pc' = [pc EXCEPT ![t] = "close_acquire"]
    /\ outcome' = [outcome EXCEPT ![t] = Pending]
    /\ UNCHANGED <<config, transport, lock, transports, last, workload, router, teleop, mapping>>

(***************************************************************************)
(* with self._lock:                                                        *)
(***************************************************************************)
\* mutant: send_command and close without the lock
LockIgnored == TRUE

LockFree == lock = 0

Acquire(t) ==
    /\ pc[t] \in {"acquire", "close_acquire"}
    /\ LockFree
    /\ lock' = t
    /\ pc' = [pc EXCEPT ![t] = IF pc[t] = "acquire" THEN "ensure" ELSE "close_body"]
    /\ UNCHANGED <<config, transport, transports, call, outcome, ncalls, last, workload, router, teleop, mapping>>

\* mutant: the lock is not released when the with block is left
NotReleased(t) == lock

\* leaving the with block, by return or by exception
Released(t) == IF lock = t THEN 0 ELSE lock

\* send_command (or close) ends with res, its locals being c: the lock is
\* released and the helper that called it handles the result
Finish(t, c, res) ==
    /\ lock' = Released(t)
    /\ pc' = [pc EXCEPT ![t] = "done"]
    /\ call' = [call EXCEPT ![t] = [c EXCEPT !.sc = res]]
    /\ outcome' = [outcome EXCEPT ![t] = HelperResult(c.op, res)]

(***************************************************************************)
(* _ensure_transport                                                       *)
(***************************************************************************)
\* mutant: a transport is constructed for every command
NeverHolds == FALSE

\* self._transport is not None
HoldsTransport == transport # 0

\* mutant: dry-run mode opens the serial port all the same
DryRunOpensPort == PySerialTransport

\* line 100: DummyTransport(), its canned response the default "OK"
DryRunTransport == DummyTransport(R_OK)

\* the bridge takes a newly constructed transport tr as its own
Adopt(t, tr) ==
    /\ transports' = Append(transports, tr)
    /\ transport' = Len(transports) + 1
    /\ last' = Event("open", t, Len(transports) + 1, None, 0)
    /\ call' = [call EXCEPT ![t].tr = Len(transports) + 1]
    /\ pc' = [pc EXCEPT ![t] = "write"]
    /\ UNCHANGED <<lock, outcome>>

EnsureTransport(t) ==
    /\ pc[t] = "ensure"
    /\ IF HoldsTransport
       THEN /\ call' = [call EXCEPT ![t].tr = transport]
            /\ pc' = [pc EXCEPT ![t] = "write"]
            /\ UNCHANGED <<transport, transports, lock, outcome, last>>
       ELSE IF config.dry_run
       THEN Adopt(t, DryRunTransport)
       ELSE IF ~effective_port(config.port).some
       THEN /\ Finish(t, call[t], Raise("RuntimeError", <<>>))
            /\ UNCHANGED <<transport, transports, last>>
       ELSE \/ Adopt(t, PySerialTransport)
            \/ \* serial.Serial(...) raises: the port cannot be opened
               /\ Finish(t, call[t], Raise("SerialException", <<>>))
               /\ UNCHANGED <<transport, transports, last>>
    /\ UNCHANGED <<config, ncalls, workload, router, teleop, mapping>>

(***************************************************************************)
(* transport.write_line(command), and the return when no response is       *)
(* expected                                                                *)
(***************************************************************************)
\* DummyTransport.write_line / PySerialTransport.write_line: the transport
\* after a successful write of command by call id
Written(tr, command, id) ==
    IF tr.kind = "dummy"
    THEN [tr EXCEPT !.last_line = RStripNewline(command)]
    ELSE [tr EXCEPT !.last_line = RStripNewline(command) \o <<"\n">>,
                    !.pend = Append(tr.pend, id)]

\* whether an operation on the transport can raise (only a real serial port
\* fails) and whether it can succeed (a closed serial port cannot)
MayFail(tr) == tr.kind = "pyserial"
MaySucceed(tr) == tr.kind = "dummy" \/ tr.is_open

WriteLine(t) ==
    /\ pc[t] = "write"
    /\ LET i == call[t].tr
           c == [call[t] EXCEPT !.writes = @ + 1]
       IN  \/ /\ MaySucceed(transports[i])
              /\ transports' = [transports EXCEPT
                                   ![i] = Written(@, call[t].command, call[t].id)]
              /\ last' = Event("write", t, i, None, 0)
              /\ IF ~call[t].expect
                 THEN Finish(t, c, ReturnNone)
                 ELSE /\ call' = [call EXCEPT ![t] = c]
                      /\ pc' = [pc EXCEPT ![t] = "read"]
                      /\ UNCHANGED <<lock, outcome>>
           \/ /\ MayFail(transports[i])
              /\ last' = Event("wfail", t, i, None, 0)
              /\ Finish(t, c, Raise("SerialException", <<>>))
              /\ UNCHANGED transports
    /\ UNCHANGED <<config, transport, ncalls, workload, router, teleop, mapping>>

(***************************************************************************)
(* response = transport.readline(timeout) and its classification           *)
(***************************************************************************)
\* DummyTransport.readline / PySerialTransport.readline: what the read
\* returns; a received line is never empty before decoding (it holds its
\* newline), so only an empty receive buffer gives None
Readline(tr) ==
    IF tr.kind = "dummy" THEN Some(tr.canned)
    ELSE IF tr.rx = <<>> THEN None
    ELSE Some(Strip(Head(tr.rx).text \o <<"\n">>))

AfterRead(tr) ==
    IF tr.kind = "pyserial" /\ tr.rx # <<>> THEN [tr EXCEPT !.rx = Tail(@)] ELSE tr

AnsweredCall(tr) ==
    IF tr.kind = "pyserial" /\ tr.rx # <<>> THEN Head(tr.rx).re ELSE 0

\* mutant: after a timeout the command is written and read once more
AfterResponseRetry(t, c, response) ==
    IF ~response.some /\ c.writes < 2
    THEN /\ pc' = [pc EXCEPT ![t] = "write"]
         /\ call' = [call EXCEPT ![t] = c]
         /\ UNCHANGED <<lock, outcome>>
    ELSE Finish(t, c, ClassifyResponse(response))

\* lines 142-151: how send_command ends once readline has returned response
AfterResponse(t, c, response) == Finish(t, c, ClassifyResponse(response))

ReadLine(t) ==
    /\ pc[t] = "read"
    /\ LET i == call[t].tr
           c == [call[t] EXCEPT !.reads = @ + 1]
           response == Readline(transports[i])
       IN  \/ /\ MaySucceed(transports[i])
              /\ transports' = [transports EXCEPT ![i] = AfterRead(@)]
              /\ last' = Event("read", t, i, response, AnsweredCall(transports[i]))
              /\ AfterResponse(t, c, response)
           \/ /\ MayFail(transports[i])
              /\ last' = Event("rfail", t, i, None, 0)
              /\ Finish(t, c, Raise("SerialException", <<>>))
              /\ UNCHANGED transports
    /\ UNCHANGED <<config, transport, ncalls, workload, router, teleop, mapping>>

(***************************************************************************)
(* The board on the other end of a serial port: it answers the lines it    *)
(* received, in order, at its own pace, or loses one.                      *)
(***************************************************************************)
DeviceReply(i, r) ==
    /\ transports[i].kind = "pyserial"
    /\ transports[i].is_open
    /\ transports[i].pend # <<>>
    /\ transports' = [transports EXCEPT
                         ![i].rx = Append(@, [text |-> r, re |-> Head(transports[i].pend)]),
                         ![i].pend = Tail(@)]
    /\ UNCHANGED <<config, transport, lock, pc, call, outcome, ncalls, last, workload, router, teleop, mapping>>

DeviceLose(i) ==
    /\ transports[i].kind = "pyserial"
    /\ transports[i].is_open
    /\ transports[i].pend # <<>>
    /\ transports' = [transports EXCEPT ![i].pend = Tail(@)]
    /\ UNCHANGED <<config, transport, lock, pc, call, outcome, ncalls, last, workload, router, teleop, mapping>>

(***************************************************************************)
(* close                                                                   *)
(***************************************************************************)
\* mutant: close leaves the closed transport in place
TransportKept == transport

\* self._transport = None
TransportAfterClose == 0

\* DummyTransport.close / PySerialTransport.close
Closed(tr) ==
    IF tr.kind = "pyserial" /\ tr.is_open
    THEN [tr EXCEPT !.is_open = FALSE, !.pend = <<>>, !.rx = <<>>, !.closes = @ + 1]
    ELSE [tr EXCEPT !.closes = @ + 1]

CloseBody(t) ==
    /\ pc[t] = "close_body"
    /\ IF transport # 0
       THEN /\ transports' = [transports EXCEPT ![transport] = Closed(@)]
            /\ last' = Event("close", t, transport, None, 0)
            /\ transport' = TransportAfterClose
       ELSE UNCHANGED <<transports, last, transport>>
    /\ Finish(t, call[t], ReturnNone)
    /\ UNCHANGED <<config, ncalls, workload, router, teleop, mapping>>

Next ==
    \/ \E t \in Active, req \in Drawn : StartCall(t, req)
    \/ \E t \in Active : StartClose(t)
    \/ \E t \in Callers : Acquire(t)
    \/ \E t \in Callers : EnsureTransport(t)
    \/ \E t \in Callers : WriteLine(t)
    \/ \E t \in Callers : ReadLine(t)
    \/ \E t \in Callers : CloseBody(t)
    \/ \E i \in 1..Len(transports), r \in Answers : DeviceReply(i, r)
    \/ \E i \in 1..Len(transports) : DeviceLose(i)

\* two callers share the bridge
Spec == Init /\ [][Next]_vars
\* one caller uses every helper, with valid and invalid arguments
SpecSequential == InitSequential /\ [][Next]_vars

\* Scheduling: a thread that waits for a lock that stays free takes it, and
\* a thread inside the with block goes on: every transport call returns
\* (readline within its timeout) or raises.  Fairness is weak fairness of
\* every thread.
\* the next step of thread t in send_command or close, the return of
\* readline apart; its position allows at most one of them
\* readline returns or raises, seen through pc alone: ReadLine(t) is enabled
\* whenever pc[t] is "read", and its steps are the steps that take pc[t]
\* from "read" to "done"
ReadReturns(t) == pc[t] = "read" /\ pc' = [pc EXCEPT ![t] = "done"]

ThreadStep(t) ==
    \/ Acquire(t)
    \/ EnsureTransport(t)
    \/ WriteLine(t)
    \/ CloseBody(t)

Fairness == \A t \in Callers : WF_vars(ThreadStep(t)) /\ WF_pc(ReadReturns(t))

InitFair == InitBridge /\ workload = "fair"
\* two callers share the bridge and every thread is scheduled
SpecFair == InitFair /\ [][Next]_vars /\ Fairness

TypeOK ==
    /\ transport \in 0..Len(transports)
    /\ lock \in {0} \cup Callers
    /\ ncalls \in 0..CallLimit
    /\ \A t \in Callers : pc[t] \in {"idle", "acquire", "ensure", "write", "read",
                                     "close_acquire", "close_body", "done"}

(***************************************************************************)
(* MotionDriverBridge.send_raw and send_command                            *)
(***************************************************************************)
\* mutant: the exception of a failed write leaves send_raw
WriteFailureEscapes == FALSE

\* send_raw, lines 72-78: the exception of writer.write or drain is caught
WriteFailureCaught == TRUE

\* mutant: a failed write leaves the bridge connected
StillConnectedAfterFailedWrite == TRUE

\* line 78: self.connected = False
ConnectedAfterFailedWrite == FALSE

\* send_raw(line): r is the bridge, ok whether the write succeeds; part and
\* idx go to the history only
send_raw(r, line, part, idx, ok) ==
    IF ~r.writer \/ ~r.connected
    THEN [r EXCEPT !.attempts = @ + 1]
    ELSE [r EXCEPT !.attempts = @ + 1,
                   !.wire = Append(@, [line |-> line, part |-> part,
                                       idx |-> idx, ok |-> ok]),
                   !.connected = IF ok THEN @ ELSE ConnectedAfterFailedWrite,
                   !.lost = IF ok THEN @ ELSE TRUE]

\* send_command goes on at pc p with loop index i after a send_raw that
\* took the bridge from r to r2; an exception that left send_raw would end
\* it in its except clause
GoOn(r, r2, p, i) ==
    IF r.connected /\ ~r2.connected /\ ~WriteFailureCaught
    THEN [r2 EXCEPT !.pc = "done", !.error = TRUE]
    ELSE [r2 EXCEPT !.pc = p, !.i = i]

\* mutant: a stop goes on to the per-motor logic
AfterStopFallsThrough == "motors"

\* line 119: return
AfterStop == "done"

\* mutant: the servo array is handled after the legacy fields
PhaseAfterServosLast(p) ==
    CASE p = "motors" -> "legacy"
      [] p = "legacy" -> "pan"
      [] p = "pan" -> "tilt"
      [] p = "tilt" -> "servos"
      [] p = "servos" -> "done"

\* the order of the blocks of send_command, lines 121-162
PhaseAfter(p) ==
    CASE p = "motors" -> "servos"
      [] p = "servos" -> "legacy"
      [] p = "legacy" -> "pan"
      [] p = "pan" -> "tilt"
      [] p = "tilt" -> "done"

\* mutant: send_command goes on without a connection
CommandIgnoredNever(r) == FALSE

\* line 110: if not self.connected
CommandIgnored(r) == ~r.connected

\* send_command(cmd) is called: lines 110-119
RouterStart(cmd) ==
    /\ router.pc \in {"idle", "done"}
    /\ router.n < MaxRouterCommands
    /\ router' = [router EXCEPT
                     !.cmd = cmd, !.wire = <<>>, !.attempts = 0, !.i = 0,
                     !.error = FALSE, !.n = @ + 1,
                     !.entered = ~CommandIgnored(router),
                     !.pc = IF CommandIgnored(router) THEN "done"
                            ELSE IF cmd.type = "estop" \/ cmd.type = "stop"
                            THEN "stop"
                            ELSE "motors"]
    /\ UNCHANGED <<bridge_vars, teleop, mapping>>

\* lines 117-119
RouterStop ==
    /\ router.pc = "stop"
    /\ \E ok \in BOOLEAN :
          router' = GoOn(router, send_raw(router, StopAllLine, "stop", 0, ok),
                         AfterStop, 0)
    /\ UNCHANGED <<bridge_vars, teleop, mapping>>

\* lines 122-130: one turn of the loop over cmd.motors, or its end
RouterMotors ==
    /\ router.pc = "motors"
    /\ LET cmd == router.cmd
           i == router.i
       IN  IF ~cmd.has_arrays
           THEN router' = [router EXCEPT !.pc = "done", !.error = TRUE]
           ELSE IF i < Len(cmd.motors)
           THEN \E ok \in BOOLEAN :
                    router' = GoOn(router,
                                   send_raw(router, RouterMotorLine(i, cmd.motors[i + 1]),
                                            "motors", i, ok),
                                   "motors", i + 1)
           ELSE router' = [router EXCEPT !.pc = PhaseAfter("motors"), !.i = 0]
    /\ UNCHANGED <<bridge_vars, teleop, mapping>>

\* lines 133-135: one turn of the loop over cmd.servos, or its end
RouterServos ==
    /\ router.pc = "servos"
    /\ LET cmd == router.cmd
           i == router.i
       IN  IF ~cmd.has_arrays
           THEN router' = [router EXCEPT !.pc = "done", !.error = TRUE]
           ELSE IF i < Len(cmd.servos)
           THEN \E ok \in BOOLEAN :
                    router' = GoOn(router,
                                   send_raw(router, RouterServoLine(i, cmd.servos[i + 1]),
                                            "servos", i, ok),
                                   "servos", i + 1)
           ELSE router' = [router EXCEPT !.pc = PhaseAfter("servos"), !.i = 0]
    /\ UNCHANGED <<bridge_vars, teleop, mapping>>

\* lines 138-155: one turn of the loops over the left and the right motors,
\* or their end
RouterLegacy ==
    /\ router.pc = "legacy"
    /\ LET cmd == router.cmd
           i == router.i
           ids == LeftMotors \o RightMotors
           left == OrZero(cmd.motor_left)
           right == OrZero(cmd.motor_right)
       IN  IF (cmd.motor_left.some \/ cmd.motor_right.some) /\ i < Len(ids)
           THEN \E ok \in BOOLEAN :
                    router' = GoOn(router,
                                   send_raw(router,
                                            RouterMotorLine(ids[i + 1],
                                                IF i < Len(LeftMotors) THEN left ELSE right),
                                            IF i < Len(LeftMotors) THEN "left" ELSE "right",
                                            ids[i + 1], ok),
                                   "legacy", i + 1)
           ELSE router' = [router EXCEPT !.pc = PhaseAfter("legacy"), !.i = 0]
    /\ UNCHANGED <<bridge_vars, teleop, mapping>>

\* lines 157-159
RouterPan ==
    /\ router.pc = "pan"
    /\ IF router.cmd.servo_pan.some
       THEN \E ok \in BOOLEAN :
                router' = GoOn(router,
                               send_raw(router, RouterServoLine(0, router.cmd.servo_pan.v),
                                        "pan", 0, ok),
                               PhaseAfter("pan"), 0)
       ELSE router' = [router EXCEPT !.pc = PhaseAfter("pan")]
    /\ UNCHANGED <<bridge_vars, teleop, mapping>>

\* lines 160-162
RouterTilt ==
    /\ router.pc = "tilt"
    /\ IF router.cmd.servo_tilt.some
       THEN \E ok \in BOOLEAN :
                router' = GoOn(router,
                               send_raw(router, RouterServoLine(1, router.cmd.servo_tilt.v),
                                        "tilt", 1, ok),
                               PhaseAfter("tilt"), 0)
       ELSE router' = [router EXCEPT !.pc = PhaseAfter("tilt")]
    /\ UNCHANGED <<bridge_vars, teleop, mapping>>

\* "PING\n"
PingLine == W_PING \o NL

\* what a readline on the link comes to: a line, the timeout of wait_for,
\* or another exception
ReadFates == {[kind |-> "line", text |-> R_PONG], [kind |-> "line", text |-> R_ERR],
              [kind |-> "timeout", text |-> <<>>], [kind |-> "error", text |-> <<>>]}

\* read_line, lines 89-102: the bridge afterwards, what is returned, and how
\* the read went ("skipped": no readline was made)
read_line(r, fate) ==
    IF ~r.reader \/ ~r.connected
    THEN [r |-> r, got |-> None, fate |-> "skipped"]
    ELSE CASE fate.kind = "line" ->
                [r |-> r, got |-> Some(Strip(fate.text)), fate |-> "line"]
           [] fate.kind = "timeout" -> [r |-> r, got |-> None, fate |-> "timeout"]
           [] fate.kind = "error" ->
                [r |-> [r EXCEPT !.connected = FALSE], got |-> None, fate |-> "error"]

\* a call of connect, disconnect, send_raw or read_line has returned: the
\* history of the send_command before it is dropped and the call recorded
Called(r, io) ==
    [r EXCEPT !.pc = "idle", !.cmd = NoCommand, !.wire = <<>>, !.attempts = 0,
              !.i = 0, !.entered = FALSE, !.error = FALSE, !.m = @ + 1, !.io = io]

\* no send_command is running and a further call may be made
BetweenCommands == router.pc \in {"idle", "done"} /\ router.m < MaxRouterCalls

\* connect(), lines 34-52: opened tells whether open_serial_connection
\* succeeds, ok whether the PING is written, fate how its answer is read
RouterConnect ==
    /\ BetweenCommands
    /\ \E opened \in BOOLEAN, ok \in BOOLEAN, fate \in ReadFates :
          IF ~opened
          THEN router' = Called([router EXCEPT !.connected = FALSE],
                                [NoIO EXCEPT !.op = "connect", !.raised = TRUE])
          ELSE LET r1 == [router EXCEPT !.reader = TRUE, !.writer = TRUE,
                                        !.connected = TRUE, !.lost = FALSE]
                   r2 == send_raw(r1, PingLine, "ping", 0, ok)
                   rd == read_line(r2, fate)
               IN  router' = Called(rd.r,
                                    [NoIO EXCEPT !.op = "connect",
                                                 !.wrote = Len(r2.wire) > Len(r1.wire),
                                                 !.fate = rd.fate, !.got = rd.got])
    /\ UNCHANGED <<bridge_vars, teleop, mapping>>

\* disconnect(), lines 56-60: closed tells whether close and wait_closed
\* return; their exception leaves disconnect before line 59
RouterDisconnect ==
    /\ BetweenCommands
    /\ \E closed \in BOOLEAN :
          IF router.writer /\ ~closed
          THEN router' = Called(router, [NoIO EXCEPT !.op = "disconnect", !.raised = TRUE])
          ELSE router' = Called([router EXCEPT !.connected = FALSE],
                                [NoIO EXCEPT !.op = "disconnect"])
    /\ UNCHANGED <<bridge_vars, teleop, mapping>>

\* send_raw(line) called from outside send_command
RouterSendRaw ==
    /\ BetweenCommands
    /\ \E line \in {PingLine, StopAllLine}, ok \in BOOLEAN :
          LET r2 == send_raw(router, line, "raw", 0, ok)
          IN  router' = Called(r2, [NoIO EXCEPT !.op = "send_raw",
                                                !.wrote = Len(r2.wire) > Len(router.wire)])
    /\ UNCHANGED <<bridge_vars, teleop, mapping>>

\* read_line() called from outside connect
RouterReadLine ==
    /\ BetweenCommands
    /\ \E fate \in ReadFates :
          LET rd == read_line(router, fate)
          IN  router' = Called(rd.r, [NoIO EXCEPT !.op = "read_line", !.fate = rd.fate,
                                                  !.got = rd.got])
    /\ UNCHANGED <<bridge_vars, teleop, mapping>>

NextRouter ==
    \/ \E cmd \in RouterCommands : RouterStart(cmd)
    \/ RouterStop
    \/ RouterMotors
    \/ RouterServos
    \/ RouterLegacy
    \/ RouterPan
    \/ RouterTilt
    \/ RouterConnect
    \/ RouterDisconnect
    \/ RouterSendRaw
    \/ RouterReadLine

\* a MotionDriverBridge after connect() succeeded, or one never connected;
\* no SerialBridge is in use
InitRouter ==
    /\ config = [dry_run |-> TRUE, port |-> P_tty]
    /\ transport = 0 /\ transports = <<>> /\ lock = 0
    /\ pc = [t \in Callers |-> "idle"]
    /\ call = [t \in Callers |-> NoCall]
    /\ outcome = [t \in Callers |-> Pending]
    /\ ncalls = 0
    /\ last = NoEvent
    /\ workload = "router"
    /\ router \in {RouterBridge(c) : c \in BOOLEAN}
    /\ teleop = NoTeleop
    /\ mapping = NoMapping

\* the networked path hands one ControlCommand after the other to the router
SpecRouter == InitRouter /\ [][NextRouter]_vars

(***************************************************************************)
(* controller_mapping: one call of a function, and re-applications of      *)
(* apply_deadzone to its own result.                                       *)
(***************************************************************************)
\* everything but the call of the mapping function
mapping_rest == <<bridge_vars, router, teleop>>

ApplyDeadzone ==
    /\ workload = "mapping"
    /\ mapping.fn = "apply_deadzone" /\ ~mapping.returned
    /\ mapping' = [mapping EXCEPT !.returned = TRUE, !.out = apply_deadzone(mapping.value, mapping.deadzone)]
    /\ UNCHANGED mapping_rest

ReapplyDeadzone ==
    /\ workload = "mapping"
    /\ mapping.fn = "apply_deadzone" /\ mapping.returned
    /\ mapping.again < MaxReapply
    /\ mapping' = [mapping EXCEPT !.arg = mapping.out, !.out = apply_deadzone(mapping.out, mapping.deadzone), !.again = @ + 1]
    /\ UNCHANGED mapping_rest

DifferentialMix ==
    /\ workload = "mapping"
    /\ mapping.fn = "differential_mix" /\ ~mapping.returned
    /\ LET lr == differential_mix(mapping.throttle, mapping.turn)
       IN  mapping' = [mapping EXCEPT !.returned = TRUE, !.left = lr[1], !.right = lr[2]]
    /\ UNCHANGED mapping_rest

\* compute_drive on a throttle, a turn and a deadzone
ComputeDrive ==
    /\ workload = "mapping"
    /\ mapping.fn = "compute_drive" /\ ~mapping.returned
    /\ LET drive == compute_drive(mapping.throttle, mapping.turn, mapping.deadzone)
       IN  mapping' = [mapping EXCEPT !.returned = TRUE, !.left = drive.left, !.right = drive.right]
    /\ UNCHANGED mapping_rest

\* as_direction_speed of the DriveCommand that compute_drive returned
AsDirectionSpeed ==
    /\ workload = "mapping"
    /\ mapping.fn = "compute_drive" /\ mapping.returned /\ mapping.ds = <<>>
    /\ mapping' = [mapping EXCEPT !.ds = as_direction_speed(DriveCommand(mapping.left, mapping.right))]
    /\ UNCHANGED mapping_rest

\* XboxController.update on the next event of the pad
ControllerUpdate ==
    /\ workload = "mapping"
    /\ mapping.fn = "update" /\ mapping.nupdates < MaxUpdates
    /\ \E event \in InputEvents :
         LET u == update(mapping.y, mapping.rx, event)
         IN  mapping' = [mapping EXCEPT !.y = u.y, !.rx = u.rx, !.action = u.action,
                                        !.event = event, !.nupdates = @ + 1]
    /\ UNCHANGED mapping_rest

NextMapping ==
    \/ ApplyDeadzone
    \/ ReapplyDeadzone
    \/ DifferentialMix
    \/ ComputeDrive
    \/ AsDirectionSpeed
    \/ ControllerUpdate

InitMapping ==
    /\ config = [dry_run |-> TRUE, port |-> P_tty]
    /\ transport = 0 /\ transports = <<>> /\ lock = 0
    /\ pc = [t \in Callers |-> "idle"]
    /\ call = [t \in Callers |-> NoCall]
    /\ outcome = [t \in Callers |-> Pending]
    /\ ncalls = 0
    /\ last = NoEvent
    /\ workload = "mapping"
    /\ router = RouterBridge(FALSE)
    /\ teleop = NoTeleop
    /\ \/ \E v \in AxisValues, d \in Deadzones :
            mapping = MappingCall("apply_deadzone", v, d, Zero, Zero)
       \/ \E th \in AxisValues, tu \in AxisValues :
            mapping = MappingCall("differential_mix", Zero, Zero, th, tu)
       \/ \E th \in DriveAxisValues, tu \in DriveAxisValues, d \in DriveDeadzones :
            mapping = MappingCall("compute_drive", Zero, d, th, tu)
       \/ mapping = MappingCall("update", Zero, Zero, Zero, Zero)

\* a function of controller_mapping is called on arguments of the grid
SpecMapping == InitMapping /\ [][NextMapping]_vars

(***************************************************************************)
(* xbox_control: the teleop program.  One thread reads the pad's events    *)
(* and calls the SerialBridge; each bridge call is one step here, with the *)
(* outcomes the bridge model gives it.  Time is counted in ticks of the    *)
(* wall clock, Interval ticks being 1 / rate_hz.                           *)
(***************************************************************************)
MaxEvents == 2
MaxClock == 4
Interval == 2

\* evdev's raw stick positions drawn, and args.deadzone (default 0.08)
RawValues == {0 - 32768, 0 - 32767, 0, 32767}
TeleopDeadzone == Axis(8)

\* a speed as the bridge model takes it, in thousandths (the speeds that
\* arise from the stick positions drawn are 0 and 1, so nothing is rounded)
Thousandths(x) == (x.n * 1000) \div x.d

\* what may happen to one bridge call: the port cannot be opened, the write
\* fails, or the line is written and the board answers or stays silent
Fate(kind, response) == [kind |-> kind, response |-> response]
Fates(link) ==
    {Fate("answer", r) : r \in {None, Some(R_OK), Some(R_ERR), Some(R_PONG)}}
    \cup {Fate("write_fails", None)}
    \cup (IF link = "closed" THEN {Fate("open_fails", None)} ELSE {})

\* one call of a helper of the bridge: enc is what the helper encoded
BridgeCall(op, enc, fate, link) ==
    IF ~enc.ok THEN [written |-> FALSE, raised |-> TRUE, link |-> link, line |-> <<>>]
    ELSE IF fate.kind = "open_fails" THEN [written |-> FALSE, raised |-> TRUE, link |-> link, line |-> enc.line]
    ELSE IF fate.kind = "write_fails" THEN [written |-> FALSE, raised |-> TRUE, link |-> "open", line |-> enc.line]
    ELSE [written |-> TRUE, raised |-> ~Returned(HelperResult(op, ClassifyResponse(fate.response))), link |-> "open", line |-> enc.line]

\* mutant: every call of send_drive sends
RateLimitedNever(now, last_sent) == FALSE

\* send_drive, line 98
RateLimited(now, last_sent) == now - last_sent < Interval

\* mutant: the emergency stop waits for the rate limiter as a drive does
AllStopWaitsForRate(now, last_sent) == RateLimited(now, last_sent)

\* main, lines 143-146: nothing stands between the press and motor_stop
AllStopHeldBack(now, last_sent) == FALSE

\* mutant: an exception of the final stop leaves the finally block
FinalStopRaiseEscapes == FALSE

\* main, lines 157-160: the final stop's exception is swallowed
FinalStopRaiseCaught == TRUE

\* mutant: send_drive swallows the exception of a motor_run and goes on
MotorRunRaiseSwallowed == TRUE

\* send_drive, lines 103-106, and main, line 152: no try stands around
\* motor_run or send_drive, only main's try ... finally
MotorRunRaiseCaught == FALSE

\* a bridge call as the history keeps it: by is where main made it, closed
\* whether bridge.close() had been called before
Attempt(c, by) == [line |-> c.line, written |-> c.written, raised |-> c.raised, by |-> by, closed |-> teleop.closes > 0]

\* main, before line 140
TeleopStart ==
    [pc |-> "initial_stop", y |-> Zero, rx |-> Zero, stopping |-> FALSE,
     last_sent |-> 0, clock |-> Interval, now |-> 0, k |-> 0,
     drive |-> DriveCommand(Zero, Zero), attempts |-> <<>>, batches |-> <<>>,
     skipped |-> 0, presses |-> 0, closes |-> 0, events |-> 0, link |-> "closed",
     raised |-> FALSE, left_by |-> "none"]

teleop_rest == <<bridge_vars, router, mapping>>

\* line 140: the initial stop; an exception takes main to the finally block
TeleopInitialStop ==
    /\ teleop.pc = "initial_stop"
    /\ \E fate \in Fates(teleop.link) :
         LET c == BridgeCall("motor_stop", motor_stop(T_all), fate, teleop.link)
         IN  teleop' = [teleop EXCEPT !.attempts = Append(@, Attempt(c, "initial")),
                                      !.link = c.link,
                                      !.raised = c.raised,
                                      !.left_by = IF c.raised THEN "exception" ELSE @,
                                      !.pc = IF c.raised THEN "final_stop" ELSE "loop"]
    /\ UNCHANGED teleop_rest

\* lines 141-142 and 150-151: an event that is no press of A or B; a stick
\* event sets its axis, any other leaves the axes, and main goes on to
\* send_drive with the drive computed from the axes
TeleopEvent ==
    /\ teleop.pc = "loop"
    /\ teleop.events < MaxEvents
    /\ \E code \in {"ABS_Y", "ABS_RX", "other"}, v \in RawValues :
         LET y == IF code = "ABS_Y" THEN NormalizeY(v) ELSE teleop.y
             rx == IF code = "ABS_RX" THEN NormalizeRX(v) ELSE teleop.rx
         IN  /\ code = "other" => v = 0
             /\ teleop' = [teleop EXCEPT !.events = @ + 1, !.y = y, !.rx = rx,
                                         !.drive = compute_drive(y, rx, TeleopDeadzone),
                                         !.pc = "send_drive"]
    /\ UNCHANGED teleop_rest

\* lines 143-146: a press of A
TeleopAllStop ==
    /\ teleop.pc = "loop"
    /\ teleop.events < MaxEvents
    /\ IF AllStopHeldBack(teleop.clock, teleop.last_sent)
       THEN teleop' = [teleop EXCEPT !.events = @ + 1, !.presses = @ + 1]
       ELSE \E fate \in Fates(teleop.link) :
              LET c == BridgeCall("motor_stop", motor_stop(T_all), fate, teleop.link)
              IN  teleop' = [teleop EXCEPT !.events = @ + 1, !.presses = @ + 1,
                                           !.attempts = Append(@, Attempt(c, "allstop")),
                                           !.link = c.link,
                                           !.raised = c.raised,
                                           !.left_by = IF c.raised THEN "exception" ELSE @,
                                           !.pc = IF c.raised THEN "final_stop" ELSE "loop"]
    /\ UNCHANGED teleop_rest

\* lines 147-149: a press of B
TeleopExit ==
    /\ teleop.pc = "loop"
    /\ teleop.events < MaxEvents
    /\ teleop' = [teleop EXCEPT !.events = @ + 1, !.pc = "final_stop", !.left_by = "exit"]
    /\ UNCHANGED teleop_rest

\* line 141: the event stream ends, or reading it raises
TeleopStreamEnds ==
    /\ teleop.pc = "loop"
    /\ \E raised \in BOOLEAN :
         teleop' = [teleop EXCEPT !.pc = "final_stop", !.raised = raised,
                                  !.left_by = IF raised THEN "exception" ELSE "stream"]
    /\ UNCHANGED teleop_rest

\* send_drive, lines 96-100: too soon after the last sending call, nothing
\* is sent and last_sent is handed back; else a batch starts at now
TeleopSendDrive ==
    /\ teleop.pc = "send_drive"
    /\ IF RateLimited(teleop.clock, teleop.last_sent)
       THEN teleop' = [teleop EXCEPT !.skipped = @ + 1, !.pc = "check_stopping"]
       ELSE teleop' = [teleop EXCEPT !.now = teleop.clock, !.k = 0,
                                     !.batches = Append(@, [at |-> teleop.clock, drive |-> teleop.drive]),
                                     !.pc = "motor_run"]
    /\ UNCHANGED teleop_rest

\* send_drive, lines 103-107: motor_run for index k, the left side's
\* direction and speed for 0,1,2 and the right side's for 3,4,5; after the
\* sixth send_drive returns now, which main stores in last_sent
TeleopMotorRun ==
    /\ teleop.pc = "motor_run"
    /\ \E fate \in Fates(teleop.link) :
         LET ds == as_direction_speed(teleop.drive)
             side == IF teleop.k < 3 THEN ds[1] ELSE ds[2]
             enc == motor_run(NatStr(teleop.k), side[1], Speed(Thousandths(side[2])))
             c == BridgeCall("motor_run", enc, fate, teleop.link)
             leaves == c.raised /\ ~MotorRunRaiseCaught
         IN  teleop' = [teleop EXCEPT !.attempts = Append(@, Attempt(c, "drive")),
                                      !.link = c.link,
                                      !.raised = leaves,
                                      !.left_by = IF leaves THEN "exception" ELSE @,
                                      !.k = IF leaves THEN @ ELSE @ + 1,
                                      !.last_sent = IF ~leaves /\ teleop.k = 5 THEN teleop.now ELSE @,
                                      !.pc = IF leaves THEN "final_stop"
                                             ELSE IF teleop.k = 5 THEN "check_stopping"
                                             ELSE "motor_run"]
    /\ UNCHANGED teleop_rest

\* lines 153-154
TeleopCheckStopping ==
    /\ teleop.pc = "check_stopping"
    /\ teleop' = [teleop EXCEPT !.pc = IF teleop.stopping THEN "final_stop" ELSE "loop",
                                !.left_by = IF teleop.stopping THEN "sigint" ELSE @]
    /\ UNCHANGED teleop_rest

\* handle_sigint, lines 130-133.  The flag is read at line 153 only, so the
\* signal is let in while main waits for an event and just before that line
TeleopSigint ==
    /\ teleop.pc \in {"loop", "check_stopping"}
    /\ ~teleop.stopping
    /\ teleop' = [teleop EXCEPT !.stopping = TRUE]
    /\ UNCHANGED teleop_rest

\* time.time() moves on.  The clock is read at line 97 only, so time is let
\* pass while main waits for an event
TeleopTick ==
    /\ teleop.pc = "loop"
    /\ teleop.clock < MaxClock
    /\ teleop' = [teleop EXCEPT !.clock = @ + 1]
    /\ UNCHANGED teleop_rest

\* lines 157-160: the final stop, its exception swallowed
TeleopFinalStop ==
    /\ teleop.pc = "final_stop"
    /\ \E fate \in Fates(teleop.link) :
         LET c == BridgeCall("motor_stop", motor_stop(T_all), fate, teleop.link)
         IN  teleop' = [teleop EXCEPT !.attempts = Append(@, Attempt(c, "final")),
                                      !.link = c.link,
                                      !.pc = IF c.raised /\ ~FinalStopRaiseCaught THEN "exited" ELSE "close"]
    /\ UNCHANGED teleop_rest

\* line 161: bridge.close(), then main returns or the exception goes on
TeleopClose ==
    /\ teleop.pc = "close"
    /\ teleop' = [teleop EXCEPT !.closes = @ + 1, !.link = "closed", !.pc = "exited"]
    /\ UNCHANGED teleop_rest

NextTeleop ==
    \/ TeleopInitialStop
    \/ TeleopEvent
    \/ TeleopAllStop
    \/ TeleopExit
    \/ TeleopStreamEnds
    \/ TeleopSendDrive
    \/ TeleopMotorRun
    \/ TeleopCheckStopping
    \/ TeleopSigint
    \/ TeleopTick
    \/ TeleopFinalStop
    \/ TeleopClose

InitTeleop ==
    /\ config = [dry_run |-> TRUE, port |-> P_tty]
    /\ transport = 0 /\ transports = <<>> /\ lock = 0
    /\ pc = [t \in Callers |-> "idle"]
    /\ call = [t \in Callers |-> NoCall]
    /\ outcome = [t \in Callers |-> Pending]
    /\ ncalls = 0
    /\ last = NoEvent
    /\ workload = "teleop"
    /\ router = RouterBridge(FALSE)
    /\ mapping = NoMapping
    /\ teleop = TeleopStart

\* main of xbox_control runs once
SpecTeleop == InitTeleop /\ [][NextTeleop]_vars

(***************************************************************************)
(* Properties.                                                             *)
(***************************************************************************)
\* the latest operation on a transport is a read by the call caller t is in
OwnRead(t) == last.ev = "read" /\ last.id = call[t].id
TimedOut == last.ev = "read" /\ ~last.res.some

\* C1: For any interleaving of concurrent send_command calls, a call that has
\* written its line and awaits the response is the one whose write is the
\* latest operation on the transport: no other call's write or read comes
\* between a write and its own read, and at most one exchange is in flight.
C1_NoInterleaving ==
    /\ \A t \in Callers :
          pc[t] = "read" =>
              last.ev = "write" /\ last.id = call[t].id /\ last.tr = call[t].tr
    /\ Cardinality({t \in Callers : pc[t] \in {"write", "read"}}) <= 1

\* an exchange is in flight while the other caller waits for the lock
C1_Witness ==
    \E t \in Callers, u \in Callers :
        t # u /\ pc[t] = "read" /\ lock = t /\ pc[u] = "acquire"

\* C2: When readline returns None, send_command raises TimeoutError and
\* returns no value, and the helper's caller gets that error.
C2_TimeoutRaises ==
    \A t \in Callers :
        (OwnRead(t) /\ ~last.res.some) =>
            /\ pc[t] = "done"
            /\ call[t].sc.kind = "TimeoutError"
            /\ outcome[t].kind = "TimeoutError"

C2_Witness ==
    \E t \in Callers :
        OwnRead(t) /\ ~last.res.some /\ call[t].sc.kind = "TimeoutError"

\* C3: After a timeout the bridge still holds the same transport, open and
\* never closed, the caller that timed out does not hold the lock, and a
\* command about to write writes on that transport.
C3_TimeoutKeepsSession ==
    TimedOut =>
        /\ transport = last.tr
        /\ Len(transports) = last.tr
        /\ transports[last.tr].is_open
        /\ transports[last.tr].closes = 0
        /\ \A t \in Callers : call[t].id = last.id => lock # t
        /\ \A t \in Callers : pc[t] = "write" => call[t].tr = last.tr

\* the command after a timeout is about to write on the same transport
C3_Witness ==
    /\ TimedOut
    /\ \E t \in Callers :
          pc[t] = "write" /\ call[t].id # last.id /\ call[t].tr = last.tr

\* the response text, trimmed, starts with ERR in any letter case
ErrPrefixed(text) ==
    LET r == Strip(text)
    IN  /\ Len(r) >= 3
        /\ UpperChar(r[1]) = "E" /\ UpperChar(r[2]) = "R" /\ UpperChar(r[3]) = "R"

\* C4: When the line read starts with ERR (in any letter case, after
\* trimming), send_command raises CommandError carrying exactly the trimmed
\* text, and the caller of the helper, whichever it is, gets that same error.
C4_ErrRaisesCommandError ==
    \A t \in Callers :
        (pc[t] = "done" /\ OwnRead(t) /\ last.res.some /\ ErrPrefixed(last.res.text)) =>
            /\ call[t].sc = Raise("CommandError", Strip(last.res.text))
            /\ outcome[t] = call[t].sc

\* the case of the test: set_servo answered with "ERR Servo channel"
C4_Witness ==
    \E t \in Callers :
        /\ pc[t] = "done" /\ OwnRead(t) /\ call[t].op = "set_servo"
        /\ outcome[t] = Raise("CommandError", R_ERR)

OkHelpers == {"set_servo", "motor_run", "motor_start", "motor_stop", "set_sweep",
              "set_log"}

\* C5: A helper other than ping returns only when the response is OK in any
\* letter case, and then returns the response; every other response that
\* does not start with ERR makes it raise CommandError carrying the response.
C5_HelpersExpectOk ==
    \A t \in Callers :
        (pc[t] = "done" /\ call[t].op \in OkHelpers) =>
            /\ outcome[t].kind # "return_none"
            /\ outcome[t].kind = "return" =>
                  /\ OwnRead(t) /\ last.res.some
                  /\ Upper(Strip(last.res.text)) = W_OK
            /\ (OwnRead(t) /\ last.res.some /\ ~ErrPrefixed(last.res.text)) =>
                  outcome[t] = IF Upper(Strip(last.res.text)) = W_OK
                               THEN Return(Strip(last.res.text))
                               ELSE Raise("CommandError", Strip(last.res.text))

\* motor_run answered with PONG fails with CommandError("PONG")
C5_Witness ==
    \E t \in Callers :
        /\ pc[t] = "done" /\ OwnRead(t) /\ call[t].op = "motor_run"
        /\ outcome[t] = Raise("CommandError", W_PONG)

\* arguments that the validators must reject
BadTarget(target) ==
    LET x == Upper(Strip(target))
    IN  ~(x \in {W_ALL, W_ALL_BRACKETS} \/ (IsDigit(x) /\ ParseInt(x) \in 0..5))
BadDirection(direction) == Upper(Strip(direction)) \notin {W_FORWARD, W_BACKWARD}
BadSpeed(speed) == speed.some /\ (speed.v < 0 \/ speed.v > 1000)
BadArgs(op, a) ==
    CASE op = "set_servo" -> a.channel \notin 0..15 \/ a.pulse_us <= 0
      [] op = "motor_run" ->
            BadTarget(a.target) \/ BadDirection(a.direction) \/ BadSpeed(a.speed)
      [] op \in {"motor_start", "motor_stop"} -> BadTarget(a.target)
      [] OTHER -> FALSE

\* C6: A call of set_servo, motor_run, motor_start or motor_stop with a bad
\* argument ends at once in a validation error: in the step that starts it
\* the bridge's transport, lock and transports and the history of transport
\* operations stay as they were, and the call has written and read nothing.
C6_ValidationBeforeIO ==
    [][\A t \in Callers :
          (call'[t].id # call[t].id /\ BadArgs(call'[t].op, call'[t].args)) =>
              /\ pc'[t] = "done"
              /\ outcome'[t].kind = "ValueError"
              /\ call'[t].writes = 0 /\ call'[t].reads = 0 /\ call'[t].tr = 0
              /\ UNCHANGED <<config, transport, lock, transports, last>>]_vars

\* motor_run with a bad argument, rejected while the bridge holds a transport
C6_Witness ==
    \E t \in Callers :
        /\ pc[t] = "done" /\ call[t].op = "motor_run"
        /\ BadArgs("motor_run", call[t].args)
        /\ outcome[t].kind = "ValueError"
        /\ transport # 0 /\ last.ev = "read"

\* C7: A send_command call writes at most once and reads at most once; one
\* that ends in a returned value, a device error or a timeout has written
\* exactly once and read once if a response was expected.
C7_NoRetry ==
    \A t \in Callers :
        /\ call[t].writes <= 1
        /\ call[t].reads <= 1
        /\ (/\ pc[t] = "done"
            /\ call[t].op # "close"
            /\ call[t].sc.kind \in {"return", "return_none", "CommandError",
                                    "TimeoutError"}) =>
              /\ call[t].writes = 1
              /\ call[t].reads = IF call[t].expect THEN 1 ELSE 0

\* a call that timed out wrote once and read once
C7_Witness ==
    \E t \in Callers :
        /\ pc[t] = "done" /\ call[t].sc.kind = "TimeoutError"
        /\ call[t].writes = 1 /\ call[t].reads = 1

\* the transports the bridge created or was given and has not closed
Live == {i \in 1..Len(transports) : transports[i].closes = 0}

\* C8: No transport exists before the first command other than one given at
\* construction; at any time the only transport not yet closed by the bridge
\* is the one it holds, so a transport is created only when none is held;
\* and a command between its write and its read uses the held transport.
C8_OneTransport ==
    /\ ncalls = 0 => last.ev = "none" /\ Len(transports) = IF transport = 0 THEN 0 ELSE 1
    /\ Live \subseteq {transport}
    /\ \A t \in Callers : pc[t] \in {"write", "read"} => call[t].tr = transport
    /\ last.ev = "open" => transport = last.tr /\ Len(transports) = last.tr

\* a second transport was created after a close, and a later command reuses it
C8_Witness ==
    \E t \in Callers :
        /\ Len(transports) >= 2 /\ transport = Len(transports)
        /\ last.ev # "open" /\ last.tr = transport
        /\ pc[t] = "write" /\ call[t].tr = transport /\ call[t].id > last.id

\* C9: close raises nothing; in the step that ends it, if the bridge held no
\* transport (never opened, or closed before) no transport is touched, and
\* otherwise only the held transport is closed and given up; no transport is
\* ever closed twice.
C9_CloseIdempotent ==
    [][\A t \in Callers :
          (pc[t] = "close_body" /\ pc'[t] = "done") =>
              /\ outcome'[t] = ReturnNone
              /\ transport' = 0
              /\ transport = 0 => transports' = transports /\ last' = last
              /\ \A i \in 1..Len(transports') :
                    /\ transports'[i].closes <= 1
                    /\ i # transport => transports'[i] = transports[i]]_vars

\* a close that found nothing to close, after an earlier close
C9_Witness ==
    \E t \in Callers :
        /\ pc[t] = "done" /\ call[t].op = "close"
        /\ last.ev = "close" /\ last.id < call[t].id
        /\ outcome[t] = ReturnNone

\* C10: Every write and read is made on a transport the bridge has not
\* closed; a command that could establish no transport fails having written
\* nothing, and a command that wrote had a transport.
C10_NoWriteAfterClose ==
    /\ last.ev \in {"write", "wfail", "read", "rfail"} =>
          transports[last.tr].closes = 0
    /\ \A t \in Callers :
          /\ pc[t] \in {"write", "read"} =>
                call[t].tr # 0 /\ transports[call[t].tr].closes = 0
          /\ (pc[t] = "done" /\ call[t].op # "close" /\ call[t].tr = 0) =>
                call[t].writes = 0 /\ ~Returned(call[t].sc)
          /\ call[t].writes > 0 => call[t].tr # 0

\* after a close, a command wrote on a newly established transport
C10_Witness ==
    /\ last.ev = "write"
    /\ \E i \in 1..Len(transports) : transports[i].closes = 1 /\ i < last.tr

\* after a close no transport could be established and nothing was written
C10_WitnessFails ==
    \E t \in Callers :
        /\ pc[t] = "done" /\ call[t].op = "set_servo" /\ call[t].tr = 0
        /\ call[t].sc.kind = "RuntimeError"
        /\ \E i \in 1..Len(transports) : transports[i].closes = 1

\* C11: After write_line raised during send_command the bridge no longer
\* holds the failed transport, and a command that follows does not write on
\* it.
C11_WriteFailureDropsTransport ==
    last.ev = "wfail" =>
        /\ transport # last.tr
        /\ \A t \in Callers :
              (pc[t] = "write" /\ call[t].id # last.id) => call[t].tr # last.tr

\* the configured port, trimmed and in any letter case, is "", auto or detect
SentinelPort(port) ==
    Upper(Strip(port)) \in {<<>>, <<"A","U","T","O">>, <<"D","E","T","E","C","T">>}

\* C12: When a command finds no transport held, dry_run false and a sentinel
\* port, it ends at once in the configuration error (RuntimeError): in that
\* step no transport is created, no transport operation is recorded, the
\* bridge still holds none, the call has written nothing and does not keep
\* the lock, and the configuration is as it was, so a later command fails
\* the same way.
C12_SentinelPortFailsFast ==
    [][\A t \in Callers :
          (/\ pc[t] = "ensure" /\ pc'[t] # "ensure"
           /\ transport = 0 /\ ~config.dry_run /\ SentinelPort(config.port)) =>
              /\ pc'[t] = "done"
              /\ call'[t].sc.kind = "RuntimeError"
              /\ outcome'[t].kind = "RuntimeError"
              /\ call'[t].writes = 0 /\ call'[t].tr = 0
              /\ transport' = 0 /\ transports' = transports /\ last' = last
              /\ lock' # t
              /\ config' = config]_vars

\* the configuration error met again by a later command, nothing ever opened
C12_Witness ==
    \E t \in Callers :
        /\ pc[t] = "done" /\ call[t].sc.kind = "RuntimeError" /\ call[t].id >= 2
        /\ \E u \in Callers :
              u # t /\ pc[u] = "done" /\ outcome[u].kind = "RuntimeError"
                    /\ call[u].id < call[t].id
        /\ transports = <<>> /\ lock = 0 /\ config.port = P_detect

\* the line a successful write put on the wire, without its newline
WrittenLine == RStripNewline(transports[last.tr].last_line)
\* caller t is in (or has just ended) the call that made the latest write
OwnWrite(t) == last.ev = "write" /\ last.id = call[t].id

\* the words of a line, split at single spaces
RECURSIVE Tokens(_)
Tokens(s) ==
    IF \A i \in 1..Len(s) : s[i] # " " THEN <<s>>
    ELSE LET k == CHOOSE i \in 1..Len(s) :
                      s[i] = " " /\ \A j \in 1..(i - 1) : s[j] # " "
         IN  <<SubSeq(s, 1, k - 1)>> \o Tokens(SubSeq(s, k + 1, Len(s)))

TargetWords == {<<"0">>, <<"1">>, <<"2">>, <<"3">>, <<"4">>, <<"5">>, W_ALL}

\* a decimal d.dd with a value from 0.00 to 1.00
SpeedWord(w) ==
    /\ Len(w) = 4 /\ w[2] = "."
    /\ IsDigitChar(w[1]) /\ IsDigitChar(w[3]) /\ IsDigitChar(w[4])
    /\ 100 * DigitValue(w[1]) + 10 * DigitValue(w[3]) + DigitValue(w[4]) <= 100

MotorLineOK(tok) ==
    /\ Len(tok) \in {3, 4}
    /\ tok[2] \in TargetWords
    /\ tok[3] \in {W_START, W_STOP, W_FORWARD, W_BACKWARD}
    /\ Len(tok) = 4 => tok[3] \in {W_FORWARD, W_BACKWARD} /\ SpeedWord(tok[4])

ServoLineOK(tok) ==
    /\ Len(tok) = 3
    /\ IsDigit(tok[2]) /\ ParseInt(tok[2]) \in 0..15
    /\ IsDigit(tok[3]) /\ ParseInt(tok[3]) > 0

Helpers == OkHelpers \cup {"ping"}

\* C13: Every line a helper call writes that begins with the word MOTOR has
\* a target in {0..5, ALL}, an action in {START, STOP, FORWARD, BACKWARD}
\* and, if a fourth word is present, a speed from 0.00 to 1.00; every line
\* that begins with the word S has a channel in 0..15 and a pulse above 0.
C13_WireLinesValid ==
    \A t \in Callers :
        (OwnWrite(t) /\ call[t].op \in Helpers) =>
            LET tok == Tokens(WrittenLine)
            IN  /\ tok[1] = W_MOTOR => MotorLineOK(tok)
                /\ tok[1] = W_S => ServoLineOK(tok)

\* a MOTOR line with a speed is on the wire
C13_Witness ==
    \E t \in Callers :
        /\ OwnWrite(t) /\ call[t].op = "motor_run"
        /\ Len(Tokens(WrittenLine)) = 4 /\ Tokens(WrittenLine)[1] = W_MOTOR

\* the target as the protocol names it: ALL, or the decimal index
TargetWord(target) ==
    LET x == Upper(Strip(target))
    IN  IF x \in {W_ALL, W_ALL_BRACKETS} THEN W_ALL ELSE <<Digits[ParseInt(x) + 1]>>

\* w is d.dd and is the speed m (in thousandths) rounded to two decimals
TwoDecimalsOf(w, m) ==
    /\ Len(w) = 4 /\ w[2] = "."
    /\ IsDigitChar(w[1]) /\ IsDigitChar(w[3]) /\ IsDigitChar(w[4])
    /\ LET h == 100 * DigitValue(w[1]) + 10 * DigitValue(w[3]) + DigitValue(w[4])
       IN  10 * h - 5 <= m /\ m <= 10 * h + 5

\* C14: motor_run is rejected with a validation error exactly when its
\* target is not an index 0..5 or ALL/[ALL], its direction is not FORWARD or
\* BACKWARD (both trimmed, in any letter case) or its speed is given and not
\* in [0, 1]; otherwise the line it writes is MOTOR, the normalized target,
\* the direction in upper case and, exactly when a speed is given, the speed
\* with two decimals, separated by single spaces.
C14_MotorRunLine ==
    \A t \in Callers :
        call[t].op = "motor_run" =>
            LET a == call[t].args
                tok == Tokens(WrittenLine)
            IN  /\ BadArgs("motor_run", a) <=> outcome[t].kind = "ValueError"
                /\ OwnWrite(t) =>
                      /\ Len(tok) = IF a.speed.some THEN 4 ELSE 3
                      /\ tok[1] = W_MOTOR
                      /\ tok[2] = TargetWord(a.target)
                      /\ tok[3] = Upper(Strip(a.direction))
                      /\ tok[3] \in {W_FORWARD, W_BACKWARD}
                      /\ a.speed.some => TwoDecimalsOf(tok[4], a.speed.v)

\* motor_run("ALL", "forward", 0.5) has written MOTOR ALL FORWARD 0.50
C14_Witness ==
    \E t \in Callers :
        /\ OwnWrite(t) /\ call[t].op = "motor_run"
        /\ call[t].args = RunArgs(T_all, D_forward, Speed(500))
        /\ WrittenLine = W_MOTOR \o SP \o W_ALL \o SP \o W_FORWARD \o SP
                             \o <<"0", ".", "5", "0">>

\* C15: set_servo is rejected with a validation error exactly when the
\* channel is outside 0..15 or the pulse width is not above 0 (so channel 16
\* and pulse 0 are rejected, channels 0 and 15 accepted); otherwise the line
\* it writes is S, the channel and the pulse width in decimal, separated by
\* single spaces.
C15_SetServoLine ==
    \A t \in Callers :
        call[t].op = "set_servo" =>
            LET a == call[t].args
            IN  /\ (a.channel < 0 \/ a.channel > 15 \/ a.pulse_us <= 0)
                       <=> outcome[t].kind = "ValueError"
                /\ a.channel = 16 => outcome[t].kind = "ValueError"
                /\ a.pulse_us = 0 => outcome[t].kind = "ValueError"
                /\ (a.channel \in {0, 15} /\ a.pulse_us > 0) =>
                       outcome[t].kind # "ValueError"
                /\ OwnWrite(t) =>
                      WrittenLine = W_S \o SP \o NatStr(a.channel) \o SP
                                        \o NatStr(a.pulse_us)

\* set_servo(15, 1500) has written S 15 1500
C15_Witness ==
    \E t \in Callers :
        /\ OwnWrite(t) /\ call[t].op = "set_servo"
        /\ call[t].args = ServoArgs(15, 1500)
        /\ WrittenLine = <<"S", " ", "1", "5", " ", "1", "5", "0", "0">>

\* C16: ping is never rejected by validation and the line it writes is PING;
\* once its read has returned, it fails with TimeoutError exactly when
\* nothing was read, with CommandError exactly when the response starts
\* with ERR, and otherwise returns the trimmed response, whatever it is: PONG
\* for PONG, and a response other than OK is returned, not refused.
C16_PingReturnsResponse ==
    \A t \in Callers :
        call[t].op = "ping" =>
            /\ outcome[t].kind # "ValueError"
            /\ OwnWrite(t) => WrittenLine = W_PING
            /\ (pc[t] = "done" /\ OwnRead(t)) =>
                  /\ ~last.res.some <=> outcome[t].kind = "TimeoutError"
                  /\ (last.res.some /\ ErrPrefixed(last.res.text))
                         <=> outcome[t].kind = "CommandError"
                  /\ (last.res.some /\ ~ErrPrefixed(last.res.text)) =>
                         outcome[t] = Return(Strip(last.res.text))
                  /\ (last.res.some /\ Strip(last.res.text) = W_PONG) =>
                         outcome[t] = Return(W_PONG)

\* ping answered with PONG has returned PONG
C16_Witness ==
    \E t \in Callers :
        /\ pc[t] = "done" /\ call[t].op = "ping" /\ OwnRead(t)
        /\ last.res = Some(W_PONG)
        /\ outcome[t] = Return(W_PONG)

OnOff(enabled) == IF enabled THEN W_ON ELSE W_OFF

\* C17: The line motor_start writes is MOTOR, the normalized target, START
\* and the line motor_stop writes is MOTOR, the normalized target, STOP,
\* three words with no speed; set_log writes LOG ON or LOG OFF; set_sweep
\* writes SWEEP ON or SWEEP OFF, followed by a space and the range as given
\* when the range is not empty, and by nothing when it is; set_log and
\* set_sweep are never rejected by validation.
C17_OtherHelperLines ==
    \A t \in Callers :
        LET a == call[t].args
            op == call[t].op
        IN  /\ op \in {"set_log", "set_sweep"} => outcome[t].kind # "ValueError"
            /\ OwnWrite(t) =>
                  /\ op = "motor_start" =>
                        Tokens(WrittenLine) = <<W_MOTOR, TargetWord(a.target), W_START>>
                  /\ op = "motor_stop" =>
                        Tokens(WrittenLine) = <<W_MOTOR, TargetWord(a.target), W_STOP>>
                  /\ op = "set_log" =>
                        WrittenLine = W_LOG \o SP \o OnOff(a.enabled)
                  /\ op = "set_sweep" =>
                        WrittenLine =
                            IF a.sweep_range = <<>>
                            THEN W_SWEEP \o SP \o OnOff(a.enabled)
                            ELSE W_SWEEP \o SP \o OnOff(a.enabled) \o SP \o a.sweep_range

\* set_sweep(False, "600-2400") has written SWEEP OFF 600-2400
C17_Witness ==
    \E t \in Callers :
        /\ OwnWrite(t) /\ call[t].op = "set_sweep"
        /\ call[t].args = SweepArgs(FALSE, SweepRange)
        /\ WrittenLine = W_SWEEP \o SP \o W_OFF \o SP \o SweepRange

\* motor_start(" [all] ") has written MOTOR ALL START
C17_WitnessStart ==
    \E t \in Callers :
        /\ OwnWrite(t) /\ call[t].op = "motor_start"
        /\ WrittenLine = W_MOTOR \o SP \o W_ALL \o SP \o W_START

StopKinds == {"stop", "estop"}

\* C18: While send_command handles a command of kind stop or estop on a
\* connected bridge, the only line handed to the link is MOTOR ALL STOP, at
\* most once; it passes through no per-motor, servo or legacy block, and
\* when it has returned exactly one line has been handed over, by its one
\* call of send_raw, whatever other fields the command carries.
C18_StopWritesOneLine ==
    (router.cmd.type \in StopKinds /\ router.entered) =>
        /\ router.pc \in {"stop", "done"}
        /\ Len(router.wire) <= 1
        /\ \A k \in 1..Len(router.wire) : router.wire[k].line = StopAllLine
        /\ router.pc = "done" =>
              /\ Len(router.wire) = 1
              /\ router.attempts = 1
              /\ ~router.error

\* a stop that also carries arrays and legacy fields has returned
C18_Witness ==
    /\ router.pc = "done" /\ router.entered
    /\ router.cmd.type = "stop"
    /\ router.cmd.motors # <<>> /\ router.cmd.servos # <<>>
    /\ router.cmd.motor_left.some /\ router.cmd.servo_pan.some
    /\ router.wire = <<[line |-> StopAllLine, part |-> "stop", idx |-> 0, ok |-> TRUE]>>

\* the place of a part of the command in the order of the claim
PartRank(part) ==
    CASE part = "stop" -> 0
      [] part = "motors" -> 1
      [] part = "servos" -> 2
      [] part = "left" -> 3
      [] part = "right" -> 4
      [] part = "pan" -> 5
      [] part = "tilt" -> 6

\* the line of a history entry is a line of the part the entry names
EntryOfPart(e) ==
    LET tok == Tokens(RStripNewline(e.line))
    IN  CASE e.part \in {"motors", "left", "right"} ->
                /\ tok[1] = W_MOTOR /\ tok[2] = NatStr(e.idx)
                /\ e.part = "left" => e.idx \in {0, 1, 2}
                /\ e.part = "right" => e.idx \in {3, 4, 5}
          [] e.part = "servos" -> tok[1] = W_S /\ tok[2] = NatStr(e.idx)
          [] e.part = "pan" -> tok[1] = W_S /\ tok[2] = <<"0">>
          [] e.part = "tilt" -> tok[1] = W_S /\ tok[2] = <<"1">>
          [] e.part = "stop" -> e.line = StopAllLine

\* C19: Of any two lines handed to the link during one send_command, the
\* earlier comes from an earlier part of the command in the order motor
\* array, servo array, left motors, right motors, pan, tilt, or from the same
\* part and a smaller index; array lines carry the index of their entry,
\* the left lines motors 0, 1, 2, the right lines motors 3, 4, 5, pan is S 0
\* and tilt is S 1.
C19_FixedOrder ==
    /\ \A k \in 1..Len(router.wire) : EntryOfPart(router.wire[k])
    /\ \A j \in 1..Len(router.wire), k \in 1..Len(router.wire) :
          j < k =>
              \/ PartRank(router.wire[j].part) < PartRank(router.wire[k].part)
              \/ /\ router.wire[j].part = router.wire[k].part
                 /\ router.wire[j].idx < router.wire[k].idx

\* a command with every part has been written out: three array motors, two
\* array servos, six legacy motors, pan and tilt
C19_Witness ==
    /\ router.pc = "done"
    /\ Len(router.wire) = 13
    /\ [k \in 1..13 |-> router.wire[k].part] =
           <<"motors", "motors", "motors", "servos", "servos", "left", "left",
             "left", "right", "right", "right", "pan", "tilt">>
    /\ \A k \in 1..13 : router.wire[k].ok

\* the sub-commands a command consists of
SubCommands(cmd) ==
    IF cmd.type \in StopKinds THEN 1
    ELSE Len(cmd.motors) + Len(cmd.servos)
         + (IF cmd.motor_left.some \/ cmd.motor_right.some THEN 6 ELSE 0)
         + (IF cmd.servo_pan.some THEN 1 ELSE 0)
         + (IF cmd.servo_tilt.some THEN 1 ELSE 0)

WriteFailed == \E k \in 1..Len(router.wire) : ~router.wire[k].ok

\* C20 as claimed: when a write failed during a send_command, the line of
\* every sub-command of the batch has still been handed to the link by the
\* time send_command returns.
C20_LaterLinesHandedOver ==
    (router.pc = "done" /\ WriteFailed) =>
        Len(router.wire) = SubCommands(router.cmd)

\* C20 as amended: a failed write raises nothing and does not end the
\* send_command: by the time it returns send_raw has been called once for
\* every sub-command of the batch; but the failed write marks the bridge
\* not connected, so the line that failed is the last one handed to the link.
C20_LaterSubCommandsAttempted ==
    WriteFailed =>
        /\ ~router.connected
        /\ ~router.error
        /\ \A k \in 1..Len(router.wire) : ~router.wire[k].ok => k = Len(router.wire)
        /\ router.pc = "done" => router.attempts = SubCommands(router.cmd)

\* the first of thirteen sub-commands failed; the other twelve were passed
\* to send_raw and skipped
C20_Witness ==
    /\ router.pc = "done"
    /\ Len(router.wire) = 1 /\ ~router.wire[1].ok
    /\ router.attempts = 13

\* the value, in thousandths, of a decimal text of at most three decimals
DecimalValue(w) ==
    LET dot == CHOOSE k \in 1..Len(w) : w[k] = "."
        frac == SubSeq(w, dot + 1, Len(w))
        pad == frac \o [k \in 1..(3 - Len(frac)) |-> "0"]
    IN  1000 * ParseInt(SubSeq(w, 1, dot - 1)) + ParseInt(pad)

IsDecimal(w) ==
    /\ \E k \in 2..(Len(w) - 1) : w[k] = "."
    /\ \A k \in 1..Len(w) : w[k] = "." \/ IsDigitChar(w[k])
    /\ Cardinality({k \in 1..Len(w) : w[k] = "."}) = 1
    /\ Len(w) - (CHOOSE k \in 1..Len(w) : w[k] = ".") <= 3

\* line is the motor line of the claim for motor i and signed speed
MotorLineFor(line, i, speed) ==
    LET tok == Tokens(RStripNewline(line))
    IN  /\ line = RStripNewline(line) \o NL
        /\ tok[1] = W_MOTOR /\ tok[2] = NatStr(i)
        /\ IF speed = 0 THEN tok = <<W_MOTOR, NatStr(i), W_STOP>>
           ELSE /\ Len(tok) = 4
                /\ tok[3] = IF speed > 0 THEN W_FORWARD ELSE W_BACKWARD
                /\ IsDecimal(tok[4])
                /\ DecimalValue(tok[4]) = IF speed > 0 THEN speed ELSE 0 - speed

\* the lines of one part of the command, in the order handed to the link
PartLines(part) ==
    LET es == SelectSeq(router.wire, LAMBDA e : e.part = part)
    IN  [k \in 1..Len(es) |-> es[k].line]

\* send_command has returned from a command that is no stop, on a bridge it
\* found connected, and no write failed
RoutedThrough ==
    /\ router.pc = "done" /\ router.entered
    /\ router.cmd.type \notin StopKinds
    /\ ~WriteFailed

\* C21: While a command that is no stop and carries a motor array is
\* handled, the k-th line of the motor array handed to the link is the line
\* of entry k, at index k - 1: MOTOR i STOP for a zero speed, MOTOR i FORWARD
\* or BACKWARD by the sign with the magnitude otherwise; the k-th servo line
\* is S, the index k - 1 and the pulse of entry k; and when send_command has
\* returned with no write failed, there is exactly one line for every entry.
C21_ArrayLines ==
    LET cmd == router.cmd
        m == PartLines("motors")
        sv == PartLines("servos")
    IN  /\ Len(m) <= Len(cmd.motors) /\ Len(sv) <= Len(cmd.servos)
        /\ \A k \in 1..Len(m) : MotorLineFor(m[k], k - 1, cmd.motors[k])
        /\ \A k \in 1..Len(sv) :
              sv[k] = W_S \o SP \o NatStr(k - 1) \o SP \o NatStr(cmd.servos[k]) \o NL
        /\ (RoutedThrough /\ cmd.has_arrays) =>
              Len(m) = Len(cmd.motors) /\ Len(sv) = Len(cmd.servos)

\* the motor array 0.5, 0, -0.25 and the servo array 1500, 1200 written out
C21_Witness ==
    /\ RoutedThrough
    /\ router.cmd.motors = <<500, 0, 0 - 250>>
    /\ PartLines("motors") =
           <<W_MOTOR \o SP \o <<"0">> \o SP \o W_FORWARD \o SP \o <<"0", ".", "5">> \o NL,
             W_MOTOR \o SP \o <<"1">> \o SP \o W_STOP \o NL,
             W_MOTOR \o SP \o <<"2">> \o SP \o W_BACKWARD \o SP
                 \o <<"0", ".", "2", "5">> \o NL>>
    /\ Len(PartLines("servos")) = 2

LegacyLines == PartLines("left") \o PartLines("right")

\* C22: When send_command has returned from a command that is no stop, with
\* no write failed: if the command carries motor_left or motor_right,
\* exactly six legacy motor lines were handed to the link, motors 0, 1, 2
\* with the line of motor_left and motors 3, 4, 5 with the line of
\* motor_right, a missing side counting as zero; if it carries neither, no
\* legacy motor line was.
C22_LegacySixLines ==
    RoutedThrough =>
        LET cmd == router.cmd
        IN  IF cmd.motor_left.some \/ cmd.motor_right.some
            THEN /\ Len(LegacyLines) = 6
                 /\ \A k \in 1..3 :
                       MotorLineFor(LegacyLines[k], k - 1, OrZero(cmd.motor_left))
                 /\ \A k \in 4..6 :
                       MotorLineFor(LegacyLines[k], k - 1, OrZero(cmd.motor_right))
            ELSE LegacyLines = <<>>

\* C23: Every MOTOR line handed to the link names a motor 0..5 or ALL and
\* every S line a channel 0..15.
C23_RouterTargetsValid ==
    \A k \in 1..Len(router.wire) :
        LET tok == Tokens(RStripNewline(router.wire[k].line))
        IN  /\ tok[1] = W_MOTOR => tok[2] \in TargetWords
            /\ tok[1] = W_S => IsDigit(tok[2]) /\ ParseInt(tok[2]) \in 0..15

(***************************************************************************)
(* controller_mapping.apply_deadzone and differential_mix                  *)
(***************************************************************************)
\* an apply_deadzone call has returned; arg is the argument it was given
DeadzoneReturned == mapping.fn = "apply_deadzone" /\ mapping.returned
\* |arg| < deadzone, |arg| = deadzone and |arg| > deadzone, on the fractions
ArgInside == Abs(mapping.arg.n) * mapping.deadzone.d < mapping.deadzone.n * mapping.arg.d
ArgOnEdge == Abs(mapping.arg.n) * mapping.deadzone.d = mapping.deadzone.n * mapping.arg.d
ArgBeyond == Abs(mapping.arg.n) * mapping.deadzone.d > mapping.deadzone.n * mapping.arg.d

\* C27: for v in [-1,1] and d in [0,1) with |v| < d, apply_deadzone(v, d) is
\* exactly 0, and apply_deadzone applied to a zero result gives zero again.
C27_InsideDeadzoneIsZero ==
    DeadzoneReturned =>
        /\ ArgInside => mapping.out.n = 0
        /\ (mapping.again > 0 /\ mapping.arg.n = 0) => mapping.out.n = 0

\* the test's apply_deadzone(-0.04, 0.05) is 0, and so is the result of
\* applying the function to that zero
C27_Witness ==
    /\ DeadzoneReturned /\ mapping.again > 0
    /\ mapping.value = Axis(0 - 4) /\ mapping.deadzone = Axis(5)
    /\ mapping.arg.n = 0 /\ mapping.out.n = 0

\* C28 as stated: for v in [-1,1] and d in [0,1) with |v| >= d,
\* apply_deadzone(v, d) has the sign of v and a magnitude in [0,1].
C28_SameSignOutside ==
    (DeadzoneReturned /\ ~ArgInside) =>
        /\ RSign(mapping.out) = RSign(mapping.arg)
        /\ Abs(mapping.out.n) <= mapping.out.d

\* C28, amended: with |v| > d the result has the sign of v and a magnitude
\* in (0,1]; with |v| = d the result is 0.
C28_SameSignBeyond ==
    DeadzoneReturned =>
        /\ ArgBeyond => /\ RSign(mapping.out) = RSign(mapping.arg)
                        /\ mapping.out.n # 0
                        /\ Abs(mapping.out.n) <= mapping.out.d
        /\ ArgOnEdge => mapping.out.n = 0

\* apply_deadzone(-0.5, 0.05) is negative
C28_Witness ==
    /\ DeadzoneReturned /\ mapping.again = 0
    /\ mapping.value = Axis(0 - 50) /\ mapping.deadzone = Axis(5)
    /\ mapping.out.n < 0

\* the grid index of the value the call was first given
ValueIndex == (mapping.value.n * AxisSteps) \div mapping.value.d
\* the grid values one step further from zero than that value, on its side
OneStepOut ==
    {Axis(k) : k \in {j \in {ValueIndex - 1, ValueIndex + 1} : Abs(j) <= AxisSteps /\ Abs(j) > Abs(ValueIndex) /\ j * ValueIndex >= 0}}

\* C29: outside the deadzone apply_deadzone(v, d) is
\* sign(v) * clamp((|v| - d) / (1 - d), 0, 1): 0 at |v| = d, exactly sign(v)
\* at |v| = 1, and non-decreasing in |v| in between, for every d in [0,1).
C29_RescaleLinear ==
    (DeadzoneReturned /\ ~ArgInside) =>
        LET a == mapping.arg
            d == mapping.deadzone
            sign == IF a.n > 0 THEN 1 ELSE 0 - 1
        IN  \* (|a| - d) / (1 - d) lies in [0,1] here, so the clamp keeps it
            /\ mapping.out = Rat(sign * (Abs(a.n) * d.d - d.n * a.d), a.d * (d.d - d.n))
            /\ ArgOnEdge => mapping.out.n = 0
            /\ Abs(a.n) = a.d => mapping.out = Rat(sign, 1)
            /\ mapping.again = 0 =>
                 \A w \in OneStepOut :
                     RLe(RAbs(mapping.out), RAbs(apply_deadzone(w, d)))

\* the test's apply_deadzone(0.06, 0.05): 0.01 / 0.95, between 0 and 0.1
C29_Witness ==
    /\ DeadzoneReturned /\ mapping.again = 0
    /\ mapping.value = Axis(6) /\ mapping.deadzone = Axis(5)
    /\ mapping.out = Rat(1, 95)

ClampInt(k, lo, hi) == IF k < lo THEN lo ELSE IF k > hi THEN hi ELSE k
ThrottleIndex == (mapping.throttle.n * AxisSteps) \div mapping.throttle.d
TurnIndex == (mapping.turn.n * AxisSteps) \div mapping.turn.d

DriveAttempts == SelectSeq(teleop.attempts, LAMBDA a : a.by = "drive")

\* line is MOTOR idx dir speed for the side value v: FORWARD for v >= 0,
\* BACKWARD for v < 0, and |v| as a decimal
DriveLineFor(line, idx, v) ==
    LET tok == Tokens(line)
    IN  /\ Len(tok) = 4
        /\ tok[1] = W_MOTOR /\ tok[2] = <<Digits[idx + 1]>>
        /\ tok[3] = IF v.n >= 0 THEN W_FORWARD ELSE W_BACKWARD
        /\ IsDecimal(tok[4])
        /\ DecimalValue(tok[4]) * v.d = 1000 * Abs(v.n)

\* send_drive takes its decision: the step that leaves its first line
SendDriveDecides == teleop.pc = "send_drive" /\ teleop'.pc # "send_drive"

\* the latest call send_drive has made (and so, the history only growing,
\* every one) is the claim's call for its place in its batch, and a batch
\* that was not cut short by an exception has six
SixPerBatch ==
    /\ \A i \in {Len(DriveAttempts)} \ {0} :
         LET b == ((i - 1) \div 6) + 1
             idx == (i - 1) % 6
         IN  /\ b <= Len(teleop.batches)
             /\ DriveLineFor(DriveAttempts[i].line, idx,
                             IF idx < 3 THEN teleop.batches[b].drive.left
                             ELSE teleop.batches[b].drive.right)
    /\ (teleop.pc # "motor_run" /\ \A i \in 1..Len(DriveAttempts) : ~DriveAttempts[i].raised) =>
         /\ Len(DriveAttempts) = 6 * Len(teleop.batches)
         /\ teleop.last_sent = (IF teleop.batches = <<>> THEN 0
                                ELSE teleop.batches[Len(teleop.batches)].at)

BatchesApart ==
    \A j \in 2..Len(teleop.batches) :
        teleop.batches[j].at - teleop.batches[j - 1].at >= Interval

\* C24: a send_drive call made less than 1/rate_hz after the time of the
\* last sending call calls nothing on the bridge and hands last_sent back
\* unchanged; otherwise it starts a batch at the current time, which is six
\* motor_run calls, indices 0,1,2 with the left direction and speed, then
\* 3,4,5 with the right, and last_sent becomes that time.  Hence two batches
\* never start less than 1/rate_hz apart.
C24_SendDriveRateLimited ==
    /\ [][SendDriveDecides =>
            IF teleop.clock - teleop.last_sent < Interval
            THEN /\ teleop'.attempts = teleop.attempts
                 /\ teleop'.last_sent = teleop.last_sent
                 /\ teleop'.batches = teleop.batches
                 /\ teleop'.pc = "check_stopping"
            ELSE /\ teleop'.batches = Append(teleop.batches, [at |-> teleop.clock, drive |-> teleop.drive])
                 /\ teleop'.pc = "motor_run"]_vars
    /\ [](SixPerBatch /\ BatchesApart)

\* a full batch went out, and the next call of send_drive came too soon
C24_Witness ==
    /\ Len(teleop.batches) = 1 /\ Len(DriveAttempts) = 6
    /\ \A i \in 1..6 : DriveAttempts[i].written /\ ~DriveAttempts[i].raised
    /\ teleop.batches[1].drive.left = One /\ teleop.batches[1].drive.right = MinusOne
    /\ teleop.skipped = 1 /\ teleop.pc = "check_stopping"
    /\ teleop.last_sent = teleop.batches[1].at
    /\ teleop.clock - teleop.last_sent < Interval

\* the press of the emergency-stop button is handled in this step
AllStopPressed == teleop'.presses = teleop.presses + 1

\* C25: a press of the emergency-stop button always calls motor_stop("ALL"),
\* MOTOR ALL STOP, at once, however recently a drive batch was sent; that
\* loop iteration sends no drive command and leaves last_sent as it is.
C25_AllStopBypassesRate ==
    [][AllStopPressed =>
         /\ Len(teleop'.attempts) = Len(teleop.attempts) + 1
         /\ SubSeq(teleop'.attempts, 1, Len(teleop.attempts)) = teleop.attempts
         /\ LET a == teleop'.attempts[Len(teleop'.attempts)]
            IN  /\ a.by = "allstop"
                /\ a.line \o NL = StopAllLine
                /\ teleop'.pc = IF a.raised THEN "final_stop" ELSE "loop"
         /\ teleop'.last_sent = teleop.last_sent
         /\ teleop'.batches = teleop.batches]_vars

\* the stop has gone out less than an interval after a batch
C25_Witness ==
    /\ Len(teleop.batches) = 1 /\ Len(DriveAttempts) = 6
    /\ teleop.clock - teleop.last_sent < Interval
    /\ teleop.pc = "loop"
    /\ LET a == teleop.attempts[Len(teleop.attempts)]
       IN  a.by = "allstop" /\ a.written /\ ~a.raised /\ a.line \o NL = StopAllLine

FinalAttempts == SelectSeq(teleop.attempts, LAMBDA a : a.by = "final")

\* C26: MOTOR ALL STOP is sent before any drive command; once the try block
\* is entered every way out (exit button, SIGINT flag, end of the event
\* stream, an exception from a command) attempts a final MOTOR ALL STOP and
\* then calls bridge.close() exactly once, also when the final stop fails;
\* no command is sent after close.
C26_StopsBracketDriving ==
    /\ DriveAttempts # <<>> =>
         LET a == teleop.attempts[1]
         IN  a.by = "initial" /\ a.line \o NL = StopAllLine /\ a.written /\ ~a.raised
    /\ teleop.closes <= 1
    /\ teleop.pc = "exited" =>
         /\ teleop.left_by \in {"exit", "sigint", "stream", "exception"}
         /\ teleop.closes = 1
         /\ Len(FinalAttempts) = 1
         /\ teleop.attempts[Len(teleop.attempts)].by = "final"
         /\ FinalAttempts[1].line \o NL = StopAllLine
    /\ teleop.closes = 1 => teleop.pc = "exited"
    /\ \A i \in 1..Len(teleop.attempts) : ~teleop.attempts[i].closed

\* a drive command raised, the final stop failed as well, close was called
C26_Witness ==
    /\ teleop.pc = "exited" /\ teleop.left_by = "exception" /\ teleop.closes = 1
    /\ DriveAttempts # <<>> /\ DriveAttempts[Len(DriveAttempts)].raised
    /\ FinalAttempts[1].raised

(***************************************************************************)
(* controller_mapping.compute_drive, as_direction_speed; XboxController    *)
(***************************************************************************)
\* the claim's (direction, magnitude) of a side value v
SideOf(v) ==
    IF v.n > 0 THEN <<W_FORWARD, Rat(v.n, v.d)>>
    ELSE IF v.n < 0 THEN <<W_BACKWARD, Rat(0 - v.n, v.d)>>
    ELSE <<W_FORWARD, Rat(0, 1)>>

\* C31: compute_drive(throttle, turn, d) is
\* differential_mix(apply_deadzone(throttle, d), apply_deadzone(turn, d));
\* as_direction_speed gives each side (FORWARD, |v|) for v > 0,
\* (BACKWARD, |v|) for v < 0 and (FORWARD, 0) for v = 0, every magnitude in
\* [0,1]; compute_drive(0.5, 0.2, 0) gives FORWARD 0.7 / FORWARD 0.3.
C31_ComputeDrivePipeline ==
    (mapping.fn = "compute_drive" /\ mapping.returned) =>
        /\ <<mapping.left, mapping.right>> =
             differential_mix(apply_deadzone(mapping.throttle, mapping.deadzone),
                              apply_deadzone(mapping.turn, mapping.deadzone))
        /\ mapping.ds # <<>> =>
             /\ mapping.ds = <<SideOf(mapping.left), SideOf(mapping.right)>>
             /\ \A k \in 1..2 : mapping.ds[k][2].n >= 0 /\ mapping.ds[k][2].n <= mapping.ds[k][2].d

\* the test's compute_drive(0.5, 0.2, deadzone = 0.0)
C31_Witness ==
    /\ mapping.fn = "compute_drive" /\ mapping.returned
    /\ mapping.throttle = Axis(50) /\ mapping.turn = Axis(20) /\ mapping.deadzone = Zero
    /\ mapping.ds = <<<<W_FORWARD, Rat(7, 10)>>, <<W_FORWARD, Rat(3, 10)>>>>

\* update has just handled mapping'.event
UpdateStep == mapping.fn = "update" /\ mapping'.nupdates = mapping.nupdates + 1
StickEvent(e) == e.type = "EV_ABS" /\ e.code \in {"ABS_Y", "ABS_RX"}
InUnit(x) == 0 - x.d <= x.n /\ x.n <= x.d

\* C32: after any sequence of axis events with raw values in -32768..32767
\* both stored axis values are in [-1,1], the vertical axis inverted so that
\* forward (a negative raw value) is positive; events for any other axis or
\* button leave the stored values unchanged.
C32_AxesInRange ==
    /\ [](mapping.fn = "update" => InUnit(mapping.y) /\ InUnit(mapping.rx))
    /\ [][UpdateStep =>
            LET e == mapping'.event
            IN  /\ ~StickEvent(e) => mapping'.y = mapping.y /\ mapping'.rx = mapping.rx
                /\ (StickEvent(e) /\ e.code = "ABS_Y") =>
                     /\ mapping'.rx = mapping.rx
                     /\ RSign(mapping'.y) = 0 - RSign(Rat(e.value, 1))
                     /\ Abs(e.value) <= 32767 => mapping'.y.n * 32767 = (0 - e.value) * mapping'.y.d
                /\ (StickEvent(e) /\ e.code = "ABS_RX") =>
                     /\ mapping'.y = mapping.y
                     /\ RSign(mapping'.rx) = RSign(Rat(e.value, 1))
                     /\ Abs(e.value) <= 32767 => mapping'.rx.n * 32767 = e.value * mapping'.rx.d]_vars

\* the stick pushed fully forward (raw -32768) is stored as 1, and a button
\* event after it has left both axes as they were
C32_Witness ==
    /\ mapping.fn = "update" /\ mapping.nupdates = 2
    /\ mapping.y = One /\ mapping.rx = Zero
    /\ mapping.event = InputEvent("EV_KEY", "BTN_NORTH", 1)

(***************************************************************************)
(* SerialBridge: dry-run mode, stale replies, the lock                     *)
(***************************************************************************)
\* a caller leaves _ensure_transport with a transport, the bridge having
\* held none
MakesTransport == transport = 0 /\ \E t \in Callers : pc[t] = "ensure" /\ pc'[t] = "write"

\* C33: in dry-run mode no physical transport is ever opened: with dry_run
\* true and no transport held, a command creates an in-memory DummyTransport
\* whatever the configured port; every write is only recorded as last_line
\* (nothing is on its way to a board), every read returns the canned
\* response, and so every OK-checked helper with valid arguments succeeds on
\* a transport the bridge made itself (canned response OK; an injected one
\* is drawn with another).
C33_DryRunNeverOpens ==
    /\ [](config.dry_run =>
            /\ \A i \in 1..Len(transports) :
                 /\ transports[i].kind = "dummy"
                 /\ transports[i].pend = <<>> /\ transports[i].rx = <<>>
            /\ last.ev = "read" => last.res = Some(transports[last.tr].canned)
            /\ \A t \in Callers :
                 /\ OwnWrite(t) => transports[last.tr].last_line = RStripNewline(call[t].command)
                 /\ (/\ pc[t] = "done" /\ call[t].op \in OkHelpers
                     /\ ~BadArgs(call[t].op, call[t].args)
                     /\ call[t].tr # 0 /\ transports[call[t].tr].canned = R_OK) =>
                        outcome[t] = Return(R_OK))
    /\ [][(config.dry_run /\ MakesTransport) =>
            /\ transport' = Len(transports) + 1
            /\ transports' = Append(transports, DummyTransport(R_OK))]_vars

\* dry run with no port configured and nothing injected: motor_run has
\* returned OK from the dummy the bridge created
C33_Witness ==
    /\ config = [dry_run |-> TRUE, port |-> P_empty]
    /\ Len(transports) = 1 /\ transports[1].canned = R_OK
    /\ pc[1] = "done" /\ call[1].op = "motor_run" /\ call[1].tr = 1
    /\ outcome[1] = Return(R_OK)
    /\ transports[1].last_line # <<>>

(***************************************************************************)
(* MotionDriverBridge: the connected state                                 *)
(***************************************************************************)
\* the step is a call of connect, disconnect, send_raw or read_line
CallStep(op) == router'.m = router.m + 1 /\ router'.io.op = op
\* the step hands a line to the link
WritesToLink ==
    \/ router'.m = router.m /\ Len(router'.wire) = Len(router.wire) + 1
    \/ router'.m = router.m + 1 /\ router'.io.wrote

\* C34: after a write failure inside send_raw the bridge is not connected,
\* and as long as no connect() is called it stays so: no send_raw and no
\* send_command hands a line to the link and read_line returns None; only a
\* connect() that opens the link and returns makes it connected again.  A
\* read that times out returns None and leaves the connected state as it
\* was.
C34_WriteFailureDisconnects ==
    /\ [](router.lost => ~router.connected)
    /\ [][/\ (router.lost /\ ~CallStep("connect")) =>
                /\ router'.lost /\ ~WritesToLink
                /\ CallStep("read_line") => router'.io.got = None
          /\ (CallStep("connect") /\ router'.connected) => ~router'.io.raised
          /\ (router'.m = router.m + 1 /\ router'.io.fate = "timeout") =>
                /\ router'.io.got = None
                /\ router'.connected = (router.connected \/ CallStep("connect"))]_vars

\* a write failed during a send_command, and a read_line called afterwards
\* has returned None without reading
C34_Witness ==
    /\ router.lost /\ router.n = 1 /\ router.m = 1
    /\ router.io.op = "read_line" /\ router.io.fate = "skipped"
    /\ router.io.got = None

\* the fields of the bridge object
BridgeFields(r) == <<r.connected, r.reader, r.writer>>

\* C35: while the bridge is not connected (never connected, after a connect
\* that failed, after disconnect) send_command is a no-op for every
\* ControlCommand, stop included: it returns at once, send_raw is not
\* called, nothing is handed to the link, no error is raised or caught, and
\* the fields of the bridge are as they were.
C35_IgnoredWhenNotConnected ==
    [][(router'.n = router.n + 1 /\ ~router.connected) =>
          /\ router'.pc = "done" /\ ~router'.entered
          /\ router'.wire = <<>> /\ router'.attempts = 0 /\ ~router'.error
          /\ BridgeFields(router') = BridgeFields(router)
          /\ router'.io = router.io /\ router'.lost = router.lost]_vars

\* a stop command given after a disconnect was ignored
C35_Witness ==
    /\ router.io.op = "disconnect" /\ ~router.io.raised /\ router.writer
    /\ router.n = 1 /\ router.pc = "done" /\ ~router.entered
    /\ router.cmd.type = "stop" /\ router.wire = <<>>

(***************************************************************************)
(* SerialBridge: whose reply a command reads                               *)
(***************************************************************************)
\* C36: every response that send_command reads from the serial port and
\* hands to its caller is the board's reply to that caller's own command,
\* also when an earlier command timed out or was sent with
\* expect_response=False: a stale reply is never matched to a later command.
C36_ReplyIsOwn ==
    (last.ev = "read" /\ last.res.some /\ transports[last.tr].kind = "pyserial") =>
        last.re = last.id

\* the command of caller t is between _ensure_transport and the end of its
\* read: it is about to write, or has written and is about to read
InExchange(t) == pc[t] \in {"write", "read"}
\* the step closes a transport
ClosesTransport == \E i \in 1..Len(transports) : transports'[i].closes > transports[i].closes

\* C38: close() takes the lock of send_command: a command that is about to
\* write or to read holds the lock and works on the transport the bridge
\* holds, on which close was never called; and no step closes a transport
\* while a command is between its write and its read.
C38_NoCloseInsideExchange ==
    /\ [](\A t \in Callers :
            InExchange(t) =>
                /\ lock = t
                /\ call[t].tr = transport
                /\ transports[call[t].tr].closes = 0
                /\ transports[call[t].tr].is_open)
    /\ [][ClosesTransport => \A t \in Callers : ~InExchange(t)]_vars

\* close() is called while a command has written to the serial port and
\* waits for the answer: the close waits for the lock
C38_Witness ==
    \E t \in Callers, u \in Callers :
        /\ pc[t] = "read" /\ transports[call[t].tr].kind = "pyserial"
        /\ pc[u] = "close_acquire" /\ call[u].op = "close"

(***************************************************************************)
(* SerialBridge: no caller waits for the lock forever                      *)
(***************************************************************************)
\* caller t waits for the lock, in send_command or in close
Blocked(t) == pc[t] \in {"acquire", "close_acquire"}

FailedDrives == {j \in 1..Len(teleop.attempts) : teleop.attempts[j].by = "drive" /\ teleop.attempts[j].raised}

\* C39: when a motor_run of a send_drive batch has failed (the port cannot
\* be opened, the write fails, no answer, an ERR answer or another answer
\* that is not OK), no further motor of the batch and no further batch is
\* commanded, last_sent still is the time of the last batch that went out
\* whole (or 0), the loop is left by the exception, and the only bridge call
\* that follows is the final MOTOR ALL STOP, after which the bridge is
\* closed.
C39_FailedDriveEndsLoop ==
    \A j \in FailedDrives :
        /\ teleop.pc \in {"final_stop", "close", "exited"}
        /\ teleop.left_by = "exception"
        /\ Len(teleop.attempts) <= j + 1
        /\ Len(DriveAttempts) = 6 * (Len(teleop.batches) - 1) + teleop.k + 1
        /\ teleop.k < 6
        /\ teleop.last_sent < teleop.batches[Len(teleop.batches)].at
        /\ teleop.last_sent = (IF Len(teleop.batches) = 1 THEN 0
                               ELSE teleop.batches[Len(teleop.batches) - 1].at)
        /\ teleop.pc \in {"close", "exited"} =>
              /\ Len(teleop.attempts) = j + 1
              /\ teleop.attempts[j + 1].by = "final"
              /\ teleop.attempts[j + 1].line \o NL = StopAllLine
        /\ teleop.pc = "exited" => teleop.closes = 1

\* the third motor_run of the second batch got an answer that is not OK: the
\* other three motors were not commanded, the final stop went out and the
\* bridge was closed
C39_Witness ==
    /\ teleop.pc = "exited" /\ teleop.closes = 1
    /\ Len(teleop.batches) = 2 /\ Len(DriveAttempts) = 9 /\ teleop.k = 2
    /\ DriveAttempts[9].written /\ DriveAttempts[9].raised
    /\ teleop.last_sent = teleop.batches[1].at
    /\ FinalAttempts[1].written /\ ~FinalAttempts[1].raised

\* the place in the history of the latest call made by send_drive, and
\* whether an emergency stop was sent after it
LastDrive == CHOOSE j \in 1..Len(teleop.attempts) : teleop.attempts[j].by = "drive" /\ \A i \in (j + 1)..Len(teleop.attempts) : teleop.attempts[i].by # "drive"
StoppedSince == \E i \in (LastDrive + 1)..Len(teleop.attempts) : teleop.attempts[i].by = "allstop"
\* main waits for the next event, and the rate limiter would let a drive
\* batch through
WaitsPastInterval == teleop.pc = "loop" /\ ~RateLimited(teleop.clock, teleop.last_sent)

\* C40: the rate limiter never leaves the motors on a stale command: while
\* main waits for the next input event, and at the latest once the interval
\* of the limiter has passed since the last batch, the most recent drive
\* batch sent was computed from the current stick state (a skipped update
\* having been sent without a further event), unless an emergency stop was
\* sent after it.
C40_NoStaleCommand ==
    (WaitsPastInterval /\ teleop.batches # <<>> /\ ~StoppedSince) =>
        teleop.batches[Len(teleop.batches)].drive
            = compute_drive(teleop.y, teleop.rx, TeleopDeadzone)

====
